---- MODULE Spec2Model ----
(***************************************************************************)
(* A model of react-native-appstore-submission-tracker: the rule registry  *)
(* of AppStoreValidator (constructor, loadConfiguration, loadRules,        *)
(* registerRule, applyRuleFiltering), the validate() pipeline, the archive *)
(* scan of FileParser.parseIPA and the exit signal of the CLI.             *)
(*                                                                         *)
(* JavaScript values are modelled as follows: a string is a TLA+ string, an*)
(* array is a sequence, an object is a function whose DOMAIN is the set of *)
(* its own keys, and a value that may be null is a sequence of length <= 1 *)
(* (<<>> is null).  A Map is a sequence of entries in insertion order with *)
(* pairwise different keys.                                                *)
(***************************************************************************)
EXTENDS Integers, Sequences, FiniteSets, TLC

VARIABLES
  \* ---- the validator instance: the fields the constructor sets ----
  phase,        \* "new" before the constructor ran, "ready" after it
  options,      \* this.options
  config,       \* this.config
  rules,        \* this.rules: the Map name -> rule, as a sequence of rules
  regLog,       \* history: every rule handed to registerRule, in call order
  \* ---- one FileParser.parseIPA call ----
  archive,      \* the entries of the zip file, in central-directory order
  archiveOpens, \* whether yauzl.open succeeds on the file
  zstate,       \* where the scan is: see the actions below
  zpos,         \* how many entries the zipfile has emitted
  ztarget,      \* which artifact the entry being extracted is for
  artifacts,    \* the artifacts object of the call
  promise,      \* the promise parseIPA returned
  settleCalls,  \* history: how often resolve or reject was called
  \* ---- the validator instance: the fields validate() works on ----
  results,      \* this.results
  buildPath,    \* this.buildPath
  infoPlist,    \* this.infoPlist
  metadata,     \* this.metadata
  \* ---- one validate(buildPath, metadataPath) call ----
  pc,           \* where the call is: "idle", "parse", "metadata", "rules",
                \* "done", and "exited" once the CLI has left
  metadataPath, \* the metadataPath argument
  ruleIdx,      \* the position of runValidationRules in this.rules
  outcome,      \* what the call gave its caller: a report or a rejection
  runs,         \* how many validate calls were made on the instance
  log,          \* history: the stages and rules entered by this call
  firstRun,     \* history: the first validate call the instance completed
  inFlight,     \* the validate calls that overlap on the instance: for each
                \* its locals, its position and what it gave its caller
  \* ---- the process ----
  platform,     \* process.platform
  exitCode      \* the code process.exit was called with

regVars == <<phase, options, config, rules, regLog>>

zipVars == <<archive, archiveOpens, zstate, zpos, ztarget, artifacts, promise,
             settleCalls>>

engVars == <<results, buildPath, infoPlist, metadata, pc, metadataPath,
             ruleIdx, outcome, runs, log, firstRun, inFlight, platform,
             exitCode>>

vars == <<regVars, zipVars, engVars>>

(***************************************************************************)
(* Strings                                                                 *)
(***************************************************************************)
StartsWith(s, p) == Len(s) >= Len(p) /\ SubSeq(s, 1, Len(p)) = p

EndsWith(s, p) == Len(s) >= Len(p) /\ SubSeq(s, Len(s) - Len(p) + 1, Len(s)) = p

Includes(s, sub) ==
  \E i \in 1..(Len(s) - Len(sub) + 1) : SubSeq(s, i, i + Len(sub) - 1) = sub

\* path.dirname of a path without a trailing slash
Dirname(s) ==
  IF ~Includes(s, "/") THEN "."
  ELSE LET last == CHOOSE i \in 1..Len(s) :
                     /\ SubSeq(s, i, i) = "/"
                     /\ \A j \in (i + 1)..Len(s) : SubSeq(s, j, j) # "/"
       IN  IF last = 1 THEN "/" ELSE SubSeq(s, 1, last - 1)

(***************************************************************************)
(* Objects and nullable values                                             *)
(***************************************************************************)
EmptyObject == [k \in {} |-> 0]

\* { ...a, ...b }: the keys of both, b's value where both have the key
Spread(a, b) ==
  [k \in (DOMAIN a) \cup (DOMAIN b) |-> IF k \in DOMAIN b THEN b[k] ELSE a[k]]

Has(obj, k) == k \in DOMAIN obj

SeqToSet(q) == {q[i] : i \in 1..Len(q)}

None == <<>>

Some(x) == <<x>>

(***************************************************************************)
(* Map: insertion-ordered, one entry per key (the rule's name)             *)
(***************************************************************************)
MapKeys(m) == [i \in 1..Len(m) |-> m[i].name]

MapHas(m, name) == \E i \in 1..Len(m) : m[i].name = name

MapGet(m, name) == m[CHOOSE i \in 1..Len(m) : m[i].name = name]

\* Map.prototype.set: an existing key keeps its place, a new key goes last
MapSet(m, rule) ==
  IF MapHas(m, rule.name)
  THEN [i \in 1..Len(m) |-> IF m[i].name = rule.name THEN rule ELSE m[i]]
  ELSE Append(m, rule)

MapDelete(m, name) == SelectSeq(m, LAMBDA r : r.name # name)

(***************************************************************************)
(* The built-in rules, in the order loadRules constructs them              *)
(***************************************************************************)
BuiltInRules ==
  << [name |-> "info-plist-validation", cls |-> "InfoPlistValidationRule"],
     [name |-> "privacy-compliance",    cls |-> "PrivacyComplianceRule"],
     [name |-> "account-deletion",      cls |-> "AccountDeletionRule"],
     [name |-> "permissions",           cls |-> "PermissionsRule"],
     [name |-> "assets",                cls |-> "AssetsRule"],
     [name |-> "code-signing",          cls |-> "CodeSigningRule"],
     [name |-> "localization",          cls |-> "LocalizationRule"],
     [name |-> "performance",           cls |-> "PerformanceRule"],
     [name |-> "content-policy",        cls |-> "ContentPolicyRule"],
     [name |-> "metadata",              cls |-> "MetadataRule"] >>

BuiltInNames == {BuiltInRules[i].name : i \in 1..Len(BuiltInRules)}

BuiltInClasses == {BuiltInRules[i].cls : i \in 1..Len(BuiltInRules)}

(***************************************************************************)
(* The modules a customRules path can name.  loads: require() returns;     *)
(* constructible: `new` on the export returns an object; name: the name    *)
(* property of that object; hasValidate: the object has a validate method. *)
(* A rule built from a custom module carries the module's path as its cls. *)
(***************************************************************************)
CustomModules ==
  [p \in {"./custom-rules/company-branding-rule.js",
          "./custom-rules/metadata-override-rule.js",
          "./custom-rules/throwing-rule.js",
          "./custom-rules/missing-file.js",
          "./custom-rules/not-a-class.js",
          "./custom-rules/no-validate-rule.js"} |->
     CASE p = "./custom-rules/company-branding-rule.js" ->
            [loads |-> TRUE, constructible |-> TRUE,
             name |-> "COMPANY_BRANDING", hasValidate |-> TRUE]
       [] p = "./custom-rules/metadata-override-rule.js" ->
            [loads |-> TRUE, constructible |-> TRUE,
             name |-> "metadata", hasValidate |-> TRUE]
       [] p = "./custom-rules/throwing-rule.js" ->
            [loads |-> TRUE, constructible |-> TRUE,
             name |-> "always-throws", hasValidate |-> TRUE]
       [] p = "./custom-rules/missing-file.js" ->
            [loads |-> FALSE, constructible |-> FALSE,
             name |-> "", hasValidate |-> FALSE]
       [] p = "./custom-rules/not-a-class.js" ->
            [loads |-> TRUE, constructible |-> FALSE,
             name |-> "", hasValidate |-> FALSE]
       [] OTHER ->
            [loads |-> TRUE, constructible |-> TRUE,
             name |-> "half-rule", hasValidate |-> FALSE]]

CustomPaths == DOMAIN CustomModules

\* the shape a rule module must have: a constructible unit with a name and
\* an evaluate operation
WellShaped(p) ==
  /\ CustomModules[p].loads
  /\ CustomModules[p].constructible
  /\ CustomModules[p].name # ""
  /\ CustomModules[p].hasValidate

(***************************************************************************)
(* Configuration files on disk.  The default path in the working directory *)
(* does not exist; the others are reached through options.configPath.      *)
(***************************************************************************)
DefaultConfigPath == "appstore-validator.config.js"

ConfigFiles ==
  [p \in {"/cfg/ignore.config.js", "/cfg/custom.config.js",
          "/cfg/broken.config.js"} |->
     CASE p = "/cfg/ignore.config.js" ->
            [loads |-> TRUE,
             content |-> [ignore |-> <<"localization">>,
                          failOn |-> "critical",
                          output |-> "json"]]
       [] p = "/cfg/custom.config.js" ->
            [loads |-> TRUE,
             content |-> [customRules |->
                            <<"./custom-rules/company-branding-rule.js">>,
                          failOn |-> "low"]]
       [] OTHER -> [loads |-> FALSE, content |-> EmptyObject]]

\* constructor, lines 16-23: the defaults, overridden by the caller's options
DefaultOptions ==
  [verbose |-> FALSE, output |-> "console", configPath |-> None,
   ruleOptions |-> EmptyObject, failOn |-> "high"]

\* loadConfiguration: the file's object ({} when there is no file or it
\* does not load), then { rules, ignore, customRules, ...config, ...options }
LoadConfiguration(opts) ==
  LET configPath == IF opts.configPath # None THEN opts.configPath[1]
                    ELSE DefaultConfigPath
      fileConfig == IF configPath \in DOMAIN ConfigFiles
                       /\ ConfigFiles[configPath].loads
                    THEN ConfigFiles[configPath].content
                    ELSE EmptyObject
  IN  Spread(Spread([rules |-> EmptyObject, ignore |-> <<>>,
                     customRules |-> <<>>], fileConfig), opts)

(***************************************************************************)
(* loadRules                                                               *)
(***************************************************************************)
\* lines 85-91: require the module and construct it; a throw of either is
\* caught and the rule is skipped.  Nothing else is looked at.
LoadCustomRule(p) ==
  IF p \in CustomPaths /\ CustomModules[p].loads /\ CustomModules[p].constructible
  THEN Some([name |-> CustomModules[p].name, cls |-> p])
  ELSE None

RECURSIVE LoadCustomRules(_)
LoadCustomRules(paths) ==
  IF paths = <<>> THEN <<>>
  ELSE LoadCustomRule(Head(paths)) \o LoadCustomRules(Tail(paths))

\* the rules handed to registerRule by loadRules, in call order
RegisterCalls(cfg) == BuiltInRules \o LoadCustomRules(cfg.customRules)

\* a registry that keeps the first rule registered under a name
RegisterRuleKeepFirst(m, rule) ==
  IF MapHas(m, rule.name) THEN m ELSE Append(m, rule)

\* registerRule: this.rules.set(rule.name, rule)
RegisterRuleInto(m, rule) == MapSet(m, rule)

RECURSIVE RegisterAll(_, _)
RegisterAll(m, calls) ==
  IF calls = <<>> THEN m
  ELSE RegisterAll(RegisterRuleInto(m, Head(calls)), Tail(calls))

RECURSIVE DeleteAll(_, _)
DeleteAll(m, names) ==
  IF names = <<>> THEN m
  ELSE DeleteAll(MapDelete(m, Head(names)), Tail(names))

\* lines 113-119: a new Map filled in the order of the include array, with
\* the names the registry has
RECURSIVE IncludeOnly(_, _, _)
IncludeOnly(acc, m, names) ==
  IF names = <<>> THEN acc
  ELSE IncludeOnly(IF MapHas(m, Head(names))
                   THEN MapSet(acc, MapGet(m, Head(names)))
                   ELSE acc,
                   m, Tail(names))

\* the include step without the has() test of line 115
RECURSIVE IncludeOnlyNoHas(_, _, _)
IncludeOnlyNoHas(acc, m, names) ==
  IF names = <<>> THEN acc
  ELSE IncludeOnlyNoHas(MapSet(acc, IF MapHas(m, Head(names))
                                    THEN MapGet(m, Head(names))
                                    ELSE [name |-> Head(names),
                                          cls |-> "undefined"]),
                        m, Tail(names))

ApplyRuleFilteringNoHas(m, cfg, opts) ==
  LET a == DeleteAll(m, cfg.ignore)
      b == IF Has(opts.ruleOptions, "include")
           THEN IncludeOnlyNoHas(<<>>, a, opts.ruleOptions.include)
           ELSE a
  IN  IF Has(opts.ruleOptions, "exclude")
      THEN DeleteAll(b, opts.ruleOptions.exclude)
      ELSE b

\* applyRuleFiltering, lines 103-128
ApplyRuleFiltering(m, cfg, opts) ==
  LET a == DeleteAll(m, cfg.ignore)
      b == IF Has(opts.ruleOptions, "include")
           THEN IncludeOnly(<<>>, a, opts.ruleOptions.include)
           ELSE a
  IN  IF Has(opts.ruleOptions, "exclude")
      THEN DeleteAll(b, opts.ruleOptions.exclude)
      ELSE b

LoadRules(cfg, opts) ==
  ApplyRuleFiltering(RegisterAll(<<>>, RegisterCalls(cfg)), cfg, opts)

(***************************************************************************)
(* Manifests: what plist.parse returns for the entry bodies of the model   *)
(***************************************************************************)
\* the manifest of test/validator.test.js createValidPlist, with the camera
\* permission of the privacy test and a launch screen
MainManifest ==
  [CFBundleIdentifier |-> "com.example.testapp",
   CFBundleName |-> "TestApp",
   CFBundleDisplayName |-> "Test App",
   CFBundleVersion |-> "1",
   CFBundleShortVersionString |-> "1.0.0",
   LSRequiresIPhoneOS |-> TRUE,
   MinimumOSVersion |-> "14.0",
   NSCameraUsageDescription |-> "This app uses camera to take photos"]

\* the manifest of a second top-level application
OtherManifest ==
  [CFBundleIdentifier |-> "com.example.other",
   CFBundleName |-> "Other",
   CFBundleDisplayName |-> "Other",
   CFBundleVersion |-> "2",
   CFBundleShortVersionString |-> "2.0",
   LSRequiresIPhoneOS |-> TRUE]

\* the manifest of a nested component (an extension, a framework, a
\* resource bundle, a watch application)
NestedManifest ==
  [CFBundleIdentifier |-> "com.example.testapp.share",
   CFBundleName |-> "Share"]

\* the manifest of test/validator.test.js 'should detect missing required keys'
MinimalManifest == [CFBundleName |-> "TestApp"]

PrivacyManifest == [NSPrivacyTracking |-> FALSE]

EntitlementsManifest == [getTaskAllow |-> FALSE]

\* plist.parse(content.toString()): None stands for a throw
ParsePlist(body) ==
  CASE body = "plist:main" -> Some(MainManifest)
    [] body = "plist:other" -> Some(OtherManifest)
    [] body = "plist:nested" -> Some(NestedManifest)
    [] body = "plist:minimal" -> Some(MinimalManifest)
    [] body = "plist:privacy" -> Some(PrivacyManifest)
    [] body = "plist:entitlements" -> Some(EntitlementsManifest)
    [] OTHER -> None

(***************************************************************************)
(* Findings (ValidationResult) and the values rules read                   *)
(***************************************************************************)
\* a null details or fix
Null == "<null>"

\* new ValidationResult(rule, severity, message, details, fix, fixType);
\* the timestamp field is left out
NewResult(rule, severity, message, details, fix, fixType) ==
  [rule |-> rule, severity |-> severity, message |-> message,
   details |-> details, fix |-> fix, fixType |-> fixType]

\* new ValidationResult(rule, severity, message, details, fix): fixType 'fix'
Result(rule, severity, message, details, fix) ==
  NewResult(rule, severity, message, details, fix, "fix")

Severities == {"CRITICAL", "HIGH", "MEDIUM", "LOW", "INFO"}

\* the keys whose values are booleans and arrays in the manifests and
\* metadata documents of the model; every other value is a string
BoolKeys == {"LSRequiresIPhoneOS", "UIFileSharingEnabled",
             "UIViewControllerBasedStatusBarAppearance",
             "ITSAppUsesNonExemptEncryption"}

ArrayKeys == {"UIBackgroundModes", "CFBundleLocalizations", "CFBundleURLTypes",
              "CFBundleURLSchemes", "UIRequiredDeviceCapabilities",
              "CFBundleIconFiles", "UILaunchImages"}

\* obj[k] is truthy: the key is present and its value is not false or ''
Truthy(obj, k) ==
  /\ Has(obj, k)
  /\ IF k \in BoolKeys THEN obj[k] = TRUE
     ELSE IF k \in ArrayKeys THEN TRUE
     ELSE obj[k] # ""

\* array.join(sep)
RECURSIVE Join(_, _)
Join(q, sep) ==
  IF q = <<>> THEN ""
  ELSE IF Len(q) = 1 THEN q[1]
  ELSE q[1] \o sep \o Join(Tail(q), sep)

\* the findings of the elements of q for which test holds, in order
ForEach(q, test(_), make(_)) ==
  LET sel == SelectSeq(q, test) IN [i \in 1..Len(sel) |-> make(sel[i])]

When(cond, finding) == IF cond THEN <<finding>> ELSE <<>>

(***************************************************************************)
(* The built-in rules that read only the manifest or the metadata          *)
(***************************************************************************)
\* PermissionsRule.validate, src/src/rules/permissions-rule.js
PermissionsValidate(plist) ==
  IF plist = None THEN <<>>
  ELSE IF ~Truthy(plist[1], "UIBackgroundModes") THEN <<>>
  ELSE ForEach(<<"background-processing", "background-fetch">>,
               LAMBDA mode : mode \in SeqToSet(plist[1].UIBackgroundModes),
               LAMBDA mode :
                 Result("permissions", "MEDIUM",
                        "App uses sensitive background mode: " \o mode,
                        "Ensure this is essential for core functionality",
                        "Provide clear justification for background processing in App Review notes"))

\* AssetsRule.validate, src/src/rules/assets-rule.js
AssetsValidate(plist) ==
  IF plist = None THEN <<>>
  ELSE When(~Truthy(plist[1], "CFBundleIconFiles")
              /\ ~Truthy(plist[1], "CFBundleIconName"),
            NewResult("assets", "INFO", "App icon configuration reminder",
                      "Ensure your app has properly configured icons before App Store submission",
                      "Verify app icon appears correctly on device and configure CFBundleIconName or CFBundleIconFiles in Info.plist if needed. Most React Native projects handle this automatically through Xcode project settings.",
                      "manual"))
       \o When(~Truthy(plist[1], "UILaunchStoryboardName")
                 /\ ~Truthy(plist[1], "UILaunchImages"),
               Result("assets", "HIGH", "No launch screen configuration found",
                      "Launch screen is required for modern iOS apps",
                      "Add LaunchScreen.storyboard or configure UILaunchImages"))

\* LocalizationRule.validate, src/src/rules/localization-rule.js
LocalizationValidate(plist) ==
  IF plist = None THEN <<>>
  ELSE When(Truthy(plist[1], "CFBundleLocalizations")
              /\ Len(plist[1].CFBundleLocalizations) > 1,
            Result("localization", "INFO",
                   "App supports "
                     \o ToString(Len(plist[1].CFBundleLocalizations))
                     \o " languages",
                   "Languages: " \o Join(plist[1].CFBundleLocalizations, ", "),
                   "Ensure all localizations are complete and accurate"))

\* PerformanceRule.validate, src/src/rules/performance-rule.js
PerformanceValidate(plist) ==
  IF plist = None THEN <<>>
  ELSE When(Has(plist[1], "UIViewControllerBasedStatusBarAppearance")
              /\ plist[1].UIViewControllerBasedStatusBarAppearance = FALSE,
            Result("performance", "LOW",
                   "Using deprecated status bar configuration",
                   "UIViewControllerBasedStatusBarAppearance is set to false",
                   "Use view controller-based status bar appearance"))

\* ContentPolicyRule.validate, src/src/rules/content-policy-rule.js
ContentPolicyValidate(plist) ==
  IF plist = None THEN <<>>
  ELSE When(~Has(plist[1], "ITSAppUsesNonExemptEncryption"),
            Result("content-policy", "MEDIUM",
                   "Export compliance not declared",
                   "ITSAppUsesNonExemptEncryption not set",
                   "Declare export compliance status in Info.plist"))

\* METADATA_CONSTRAINTS, src/src/utils/index.js:358-364
APP_NAME_MAX_LENGTH == 30

KEYWORDS_MAX_LENGTH == 100

DESCRIPTION_MIN_LENGTH == 100

\* metadata.keywords is truthy: an array, or a string that is not ''
KeywordsTruthy(m) ==
  Has(m, "keywords") /\ (m.keywords.isArray \/ m.keywords.value # "")

\* MetadataRule.validate, src/unnamed/part_006, when it returns
MetadataFindings(meta) ==
  IF meta = None
  THEN << Result("metadata", "INFO",
                 "No metadata file provided for validation",
                 "Provide metadata.json for comprehensive validation",
                 "Create metadata.json with app description, keywords, etc.") >>
  ELSE LET m == meta[1]
       IN  When(Truthy(m, "appName") /\ Len(m.appName) > APP_NAME_MAX_LENGTH,
                Result("metadata", "HIGH",
                       "App name exceeds 30 character limit",
                       "Current length: " \o ToString(Len(m.appName)),
                       "Shorten app name to 30 characters or less"))
           \o When(Truthy(m, "description")
                     /\ Len(m.description) < DESCRIPTION_MIN_LENGTH,
                   Result("metadata", "LOW", "App description is very short",
                          "Current length: " \o ToString(Len(m.description)),
                          "Provide a more detailed app description"))
           \o When(KeywordsTruthy(m)
                     /\ Len(Join(m.keywords.value, ",")) > KEYWORDS_MAX_LENGTH,
                   Result("metadata", "MEDIUM",
                          "Keywords exceed 100 character limit",
                          "Current length: "
                            \o ToString(Len(Join(m.keywords.value, ","))),
                          "Reduce keywords to fit within 100 characters"))

\* line 61: join exists on arrays only
KeywordsJoinThrows(meta) ==
  /\ meta # None
  /\ KeywordsTruthy(meta[1])
  /\ ~meta[1].keywords.isArray

(***************************************************************************)
(* InfoPlistValidationRule, src/src/rules/info-plist-rule.js               *)
(***************************************************************************)
Digits == {"0", "1", "2", "3", "4", "5", "6", "7", "8", "9"}

LowerLetters == {"a", "b", "c", "d", "e", "f", "g", "h", "i", "j", "k", "l",
                 "m", "n", "o", "p", "q", "r", "s", "t", "u", "v", "w", "x",
                 "y", "z"}

UpperLetters == {"A", "B", "C", "D", "E", "F", "G", "H", "I", "J", "K", "L",
                 "M", "N", "O", "P", "Q", "R", "S", "T", "U", "V", "W", "X",
                 "Y", "Z"}

Letters == LowerLetters \cup UpperLetters

CharAt(s, i) == SubSeq(s, i, i)

AllCharsIn(s, set) == \A i \in 1..Len(s) : CharAt(s, i) \in set

\* the character class with the underscore and the white space added
MatchesBundleIdCharsetLoose(s) ==
  Len(s) >= 1
    /\ AllCharsIn(s, Letters \cup Digits \cup {".", "-", "_", " ", "\t", "\n"})

\* /^[a-zA-Z0-9.-]+$/
MatchesBundleIdCharset(s) ==
  Len(s) >= 1 /\ AllCharsIn(s, Letters \cup Digits \cup {".", "-"})

\* /^\d+(\.\d+)*$/
MatchesDottedNumber(s) ==
  /\ Len(s) >= 1
  /\ AllCharsIn(s, Digits \cup {"."})
  /\ CharAt(s, 1) # "." /\ CharAt(s, Len(s)) # "."
  /\ ~Includes(s, "..")

\* /^[a-zA-Z][a-zA-Z0-9+.-]*$/
MatchesUrlScheme(s) ==
  /\ Len(s) >= 1
  /\ CharAt(s, 1) \in Letters
  /\ AllCharsIn(s, Letters \cup Digits \cup {"+", ".", "-"})

DigitValue(c) ==
  CASE c = "0" -> 0 [] c = "1" -> 1 [] c = "2" -> 2 [] c = "3" -> 3
    [] c = "4" -> 4 [] c = "5" -> 5 [] c = "6" -> 6 [] c = "7" -> 7
    [] c = "8" -> 8 [] OTHER -> 9

\* the length of the longest run of digits of s that starts at position i
RECURSIVE DigitRun(_, _)
DigitRun(s, i) ==
  IF i <= Len(s) /\ CharAt(s, i) \in Digits THEN 1 + DigitRun(s, i + 1) ELSE 0

RECURSIVE DecimalValue(_)
DecimalValue(s) ==
  IF s = "" THEN 0
  ELSE 10 * DecimalValue(SubSeq(s, 1, Len(s) - 1)) + DigitValue(CharAt(s, Len(s)))

\* parseFloat of a string of the form digits [ "." digits ] followed by
\* anything: nan when no number starts the string, else the integer part
\* and whether the fraction is non-zero (all that a comparison with a whole
\* number needs)
ParseFloat(s) ==
  LET n == DigitRun(s, 1)
      hasDot == n < Len(s) /\ CharAt(s, n + 1) = "."
      f == IF hasDot THEN DigitRun(s, n + 2) ELSE 0
      frac == SubSeq(s, n + 2, n + 1 + f)
  IN  [nan |-> n = 0 /\ f = 0,
       int |-> DecimalValue(SubSeq(s, 1, n)),
       fracNonZero |-> ~AllCharsIn(frac, {"0"})]

\* parseFloat(s) < whole and parseFloat(s) > whole
FloatLess(s, whole) == ~ParseFloat(s).nan /\ ParseFloat(s).int < whole

FloatGreater(s, whole) ==
  /\ ~ParseFloat(s).nan
  /\ \/ ParseFloat(s).int > whole
     \/ ParseFloat(s).int = whole /\ ParseFloat(s).fracNonZero

\* REQUIRED_PLIST_KEYS, src/src/utils/index.js:326-333
REQUIRED_PLIST_KEYS ==
  <<"CFBundleIdentifier", "CFBundleName", "CFBundleDisplayName",
    "CFBundleVersion", "CFBundleShortVersionString", "LSRequiresIPhoneOS">>

\* IOS_SUPPORT, src/src/utils/index.js:383-387, as parseFloat reads them
MINIMUM_SUPPORTED == 12

LATEST_SDK_REQUIRED == 18

BUNDLE_ID_MAX_LENGTH == 255

DISPLAY_NAME_MAX_LENGTH == 30

ValidCapabilities ==
  {"accelerometer", "auto-focus-camera", "bluetooth-le", "camera-flash",
   "front-facing-camera", "gamekit", "gps", "gyroscope", "location-services",
   "magnetometer", "microphone", "nfc", "opengles-1", "opengles-2",
   "opengles-3", "peer-peer", "still-camera", "telephony", "video-camera",
   "wifi", "metal"}

\* every scheme of every URL type that has schemes, in order
RECURSIVE UrlSchemes(_)
UrlSchemes(urlTypes) ==
  IF urlTypes = <<>> THEN <<>>
  ELSE (IF Truthy(Head(urlTypes), "CFBundleURLSchemes")
        THEN Head(urlTypes).CFBundleURLSchemes ELSE <<>>)
       \o UrlSchemes(Tail(urlTypes))

IP == "info-plist-validation"

\* lines 52-89: the bundle identifier
BundleIdFindings(id) ==
  When(~MatchesBundleIdCharset(id),
       Result(IP, "HIGH", "Invalid bundle identifier format",
              "Bundle ID contains invalid characters: " \o id,
              "Use reverse-DNS notation with only letters, numbers, dots, and hyphens"))
  \o When(Len(id) > BUNDLE_ID_MAX_LENGTH,
          Result(IP, "HIGH", "Bundle identifier too long",
                 "Bundle ID exceeds 255 characters: " \o ToString(Len(id)),
                 "Shorten your bundle identifier to 255 characters or less"))
  \o When(Includes(id, ".."),
          Result(IP, "HIGH", "Invalid bundle identifier format",
                 "Bundle ID contains consecutive dots",
                 "Remove consecutive dots from bundle identifier"))

\* a required-key loop that stops at the first key it finds missing
RequiredKeyFindingsFirstOnly(p) ==
  LET missing == SelectSeq(REQUIRED_PLIST_KEYS, LAMBDA k : ~Truthy(p, k))
  IN  IF missing = <<>> THEN <<>>
      ELSE << Result(IP, "CRITICAL", "Missing required key: " \o Head(missing),
                     "Info.plist is missing the required " \o Head(missing)
                       \o " key",
                     "Add " \o Head(missing) \o " to your Info.plist file") >>

\* lines 38-50: the required keys
RequiredKeyFindings(p) ==
  ForEach(REQUIRED_PLIST_KEYS,
          LAMBDA k : ~Truthy(p, k),
          LAMBDA k : Result(IP, "CRITICAL", "Missing required key: " \o k,
                            "Info.plist is missing the required " \o k \o " key",
                            "Add " \o k \o " to your Info.plist file"))

\* lines 91-117: the two version strings
VersionFindings(p) ==
  When(Truthy(p, "CFBundleShortVersionString")
         /\ ~MatchesDottedNumber(p.CFBundleShortVersionString),
       Result(IP, "HIGH", "Invalid marketing version format",
              "Version should follow semantic versioning: "
                \o p.CFBundleShortVersionString,
              "Use format like 1.0.0 or 2.1"))
  \o When(Truthy(p, "CFBundleVersion")
            /\ ~MatchesDottedNumber(p.CFBundleVersion),
          Result(IP, "HIGH", "Invalid build number format",
                 "Build number should be numeric: " \o p.CFBundleVersion,
                 "Use numeric build numbers like 1, 42, or 1.0"))

\* lines 119-147: the minimum iOS version
MinVersionFindings(p) ==
  IF ~(Truthy(p, "MinimumOSVersion") \/ Truthy(p, "LSMinimumSystemVersion"))
  THEN <<>>
  ELSE LET minVersion == IF Truthy(p, "MinimumOSVersion")
                         THEN p.MinimumOSVersion ELSE p.LSMinimumSystemVersion
       IN  When(FloatLess(minVersion, MINIMUM_SUPPORTED),
                Result(IP, "MEDIUM", "Very low minimum iOS version",
                       "Minimum iOS version " \o minVersion
                         \o " is below recommended 12.0",
                       "Consider raising minimum iOS version to 14.0 for better security and features"))
           \o When(FloatGreater(minVersion, LATEST_SDK_REQUIRED),
                   Result(IP, "HIGH", "Minimum iOS version too high",
                          "Minimum iOS version " \o minVersion
                            \o " exceeds latest SDK 18.0",
                          "Lower the minimum iOS version to a supported version"))

\* lines 150-161
DisplayNameFindings(p) ==
  When(Truthy(p, "CFBundleDisplayName")
         /\ Len(p.CFBundleDisplayName) > DISPLAY_NAME_MAX_LENGTH,
       Result(IP, "HIGH", "App display name too long",
              "Display name exceeds 30 characters: "
                \o ToString(Len(p.CFBundleDisplayName)),
              "Shorten the app display name to 30 characters or less"))

\* lines 163-182
UrlSchemeFindings(p) ==
  IF ~Truthy(p, "CFBundleURLTypes") THEN <<>>
  ELSE ForEach(UrlSchemes(p.CFBundleURLTypes),
               LAMBDA scheme : ~MatchesUrlScheme(scheme),
               LAMBDA scheme :
                 Result(IP, "MEDIUM", "Invalid URL scheme format",
                        "URL scheme contains invalid characters: " \o scheme,
                        "URL schemes must start with a letter and contain only letters, numbers, +, -, and ."))

\* lines 184-208
DevelopmentFindings(p) ==
  When(Has(p, "UIFileSharingEnabled") /\ p.UIFileSharingEnabled = TRUE,
       Result(IP, "MEDIUM", "File sharing enabled",
              "UIFileSharingEnabled is set to true",
              "Consider if file sharing is necessary for production app"))
  \o When(Truthy(p, "DTXcode"),
          Result(IP, "INFO", "Development metadata present",
                 "Info.plist contains development-time metadata",
                 "This is normal for development builds"))

\* lines 210-250
CapabilityFindings(p) ==
  IF ~Truthy(p, "UIRequiredDeviceCapabilities") THEN <<>>
  ELSE ForEach(p.UIRequiredDeviceCapabilities,
               LAMBDA capability : capability \notin ValidCapabilities,
               LAMBDA capability :
                 Result(IP, "MEDIUM", "Unknown device capability",
                        "Unknown capability: " \o capability,
                        "Remove unknown capabilities or verify they are valid"))

\* InfoPlistValidationRule.validate, lines 21-253
InfoPlistValidate(plist) ==
  IF plist = None
  THEN << Result(IP, "CRITICAL",
                 "Info.plist not found or could not be parsed",
                 "The Info.plist file is required for all iOS apps",
                 "Ensure Info.plist exists in your app bundle and is valid XML") >>
  ELSE LET p == plist[1]
       IN  RequiredKeyFindings(p)
           \o (IF Truthy(p, "CFBundleIdentifier")
               THEN BundleIdFindings(p.CFBundleIdentifier) ELSE <<>>)
           \o VersionFindings(p)
           \o MinVersionFindings(p)
           \o DisplayNameFindings(p)
           \o UrlSchemeFindings(p)
           \o DevelopmentFindings(p)
           \o CapabilityFindings(p)

(***************************************************************************)
(* String.prototype.toLowerCase, for the letters A-Z                       *)
(***************************************************************************)
UpperAlphabet == "ABCDEFGHIJKLMNOPQRSTUVWXYZ"

LowerAlphabet == "abcdefghijklmnopqrstuvwxyz"

LowerChar(c) ==
  IF c \in UpperLetters
  THEN LET i == CHOOSE j \in 1..Len(UpperAlphabet) : CharAt(UpperAlphabet, j) = c
       IN  CharAt(LowerAlphabet, i)
  ELSE c

RECURSIVE ToLowerCase(_)
ToLowerCase(s) ==
  IF Len(s) <= 1 THEN LowerChar(s)
  ELSE ToLowerCase(SubSeq(s, 1, Len(s) \div 2))
         \o ToLowerCase(SubSeq(s, Len(s) \div 2 + 1, Len(s)))

\* Array.prototype.some
AnyOf(q, test(_)) == SelectSeq(q, test) # <<>>

(***************************************************************************)
(* FileParser.parseIPA                                                     *)
(***************************************************************************)

\* the regular expression /^Payload\/[^\/]+\.app\/<leaf>$/
MatchesAtAppRoot(s, leaf) ==
  /\ Len(s) >= Len("Payload/") + Len("x.app") + 1 + Len(leaf)
  /\ StartsWith(s, "Payload/")
  /\ EndsWith(s, "/" \o leaf)
  /\ LET comp == SubSeq(s, Len("Payload/") + 1, Len(s) - Len(leaf) - 1)
     IN  /\ ~Includes(comp, "/")
         /\ EndsWith(comp, ".app")

\* the regular expression /^Payload\/[^\/]+\.app\//
MatchesUnderApp(s) ==
  /\ StartsWith(s, "Payload/")
  /\ \E i \in (Len("Payload/") + Len("x.app") + 1)..Len(s) :
       /\ SubSeq(s, i, i) = "/"
       /\ LET comp == SubSeq(s, Len("Payload/") + 1, i - 1)
          IN  ~Includes(comp, "/") /\ EndsWith(comp, ".app")

\* a test that takes any Info.plist below the top-level component
IsMainInfoPlistAnyDepth(fileName) ==
  /\ MatchesUnderApp(fileName)
  /\ EndsWith(fileName, "/Info.plist")

\* lines 49-55
IsMainInfoPlist(fileName) ==
  /\ MatchesAtAppRoot(fileName, "Info.plist")
  /\ ~Includes(fileName, ".bundle/")
  /\ ~Includes(fileName, ".framework/")
  /\ ~Includes(fileName, "PlugIns/")
  /\ ~Includes(fileName, "Watch/")

\* lines 72-77
IsMainPrivacyManifest(fileName) ==
  /\ MatchesAtAppRoot(fileName, "PrivacyInfo.xcprivacy")
  /\ ~Includes(fileName, ".bundle/")
  /\ ~Includes(fileName, ".framework/")
  /\ ~Includes(fileName, "PlugIns/")

\* lines 91-97
IsMainEntitlements(fileName) ==
  /\ \/ Includes(fileName, ".app.dSYM")
     \/ Includes(fileName, "archived-expanded-entitlements.xcent")
  /\ MatchesUnderApp(fileName)
  /\ ~Includes(fileName, ".bundle/")
  /\ ~Includes(fileName, ".framework/")

EmptyArtifacts ==
  [infoPlist |-> None, appBundle |-> None, entitlements |-> None,
   privacyManifest |-> None]

PendingPromise == [state |-> "pending", value |-> None]

\* resolve(value) / reject(error): only the first call settles the promise
Settle(p, how, value) ==
  IF p.state = "pending" THEN [state |-> how, value |-> Some(value)] ELSE p

\* no parseIPA call is in progress
ZipIdle ==
  /\ archive = <<>>
  /\ archiveOpens = TRUE
  /\ zstate = "idle"
  /\ zpos = 0
  /\ ztarget = "none"
  /\ artifacts = EmptyArtifacts
  /\ promise = PendingPromise
  /\ settleCalls = 0

\* parseIPA(ipaPath) on the file whose entries are `entries`: the promise is
\* created and yauzl.open is under way
ParseIPACall(entries, opens) ==
  /\ archive' = entries
  /\ archiveOpens' = opens
  /\ zstate' = "opening-file"
  /\ zpos' = 0
  /\ ztarget' = "none"
  /\ artifacts' = EmptyArtifacts
  /\ promise' = PendingPromise
  /\ settleCalls' = 0

\* the callback of yauzl.open, lines 30-42
OnOpen ==
  /\ zstate = "opening-file"
  /\ IF archiveOpens
     THEN /\ zstate' = "reading"          \* zipfile.readEntry()
          /\ artifacts' = EmptyArtifacts
          /\ UNCHANGED <<promise, settleCalls>>
     ELSE /\ zstate' = "closed"
          /\ promise' = Settle(promise, "rejected",
                          "Could not open IPA file: " \o "ENOENT")
          /\ settleCalls' = settleCalls + 1
          /\ UNCHANGED artifacts
  /\ UNCHANGED <<archive, archiveOpens, zpos, ztarget>>

\* zipfile 'entry', lines 44-111: the handler up to its return
OnEntry ==
  /\ zstate = "reading"
  /\ zpos < Len(archive)
  /\ archive[zpos + 1].body # "corrupt-header"
  /\ zpos' = zpos + 1
  /\ LET fileName == archive[zpos + 1].fileName
     IN  CASE IsMainInfoPlist(fileName) ->
                zstate' = "opening-entry" /\ ztarget' = "infoPlist"
           [] ~IsMainInfoPlist(fileName) /\ IsMainPrivacyManifest(fileName) ->
                zstate' = "opening-entry" /\ ztarget' = "privacyManifest"
           [] ~IsMainInfoPlist(fileName) /\ ~IsMainPrivacyManifest(fileName)
                /\ IsMainEntitlements(fileName) ->
                zstate' = "opening-entry" /\ ztarget' = "entitlements"
           [] OTHER ->
                zstate' = "reading" /\ ztarget' = "none"  \* zipfile.readEntry()
  /\ UNCHANGED <<archive, archiveOpens, artifacts, promise, settleCalls>>

\* an 'end' handler that resolves whatever the scan found
OnEndAlwaysResolving ==
  /\ zstate = "reading"
  /\ zpos = Len(archive)
  /\ zstate' = "closed"
  /\ promise' = Settle(promise, "resolved", artifacts)
  /\ settleCalls' = settleCalls + 1
  /\ UNCHANGED <<archive, archiveOpens, zpos, ztarget, artifacts>>

\* zipfile 'end', lines 113-119
OnEnd ==
  /\ zstate = "reading"
  /\ zpos = Len(archive)
  /\ zstate' = "closed"
  /\ promise' = IF artifacts.infoPlist = None
                THEN Settle(promise, "rejected",
                            "Main app Info.plist not found in IPA file")
                ELSE Settle(promise, "resolved", artifacts)
  /\ settleCalls' = settleCalls + 1
  /\ UNCHANGED <<archive, archiveOpens, zpos, ztarget, artifacts>>

\* zipfile 'error', lines 121-123: the next entry cannot be read
OnZipError ==
  /\ zstate = "reading"
  /\ zpos < Len(archive)
  /\ archive[zpos + 1].body = "corrupt-header"
  /\ zstate' = "closed"
  /\ promise' = Settle(promise, "rejected",
                       "Error reading IPA file: " \o "invalid entry header")
  /\ settleCalls' = settleCalls + 1
  /\ UNCHANGED <<archive, archiveOpens, zpos, ztarget, artifacts>>

\* the callback of zipfile.openReadStream, lines 175-192
OnOpenReadStream ==
  /\ zstate = "opening-entry"
  /\ IF archive[zpos].body = "open-fails"
     THEN zstate' = "reading" /\ ztarget' = "none"   \* zipfile.readEntry()
     ELSE zstate' = "streaming" /\ UNCHANGED ztarget
  /\ UNCHANGED <<archive, archiveOpens, zpos, artifacts, promise, settleCalls>>

\* a readStream 'error' handler that only warns
OnStreamErrorOnlyWarning ==
  /\ zstate = "streaming"
  /\ archive[zpos].body = "read-fails"
  /\ zstate' = "stalled"
  /\ ztarget' = "none"
  /\ UNCHANGED <<archive, archiveOpens, zpos, artifacts, promise, settleCalls>>

\* readStream 'error', lines 188-191
OnStreamError ==
  /\ zstate = "streaming"
  /\ archive[zpos].body = "read-fails"
  /\ zstate' = "reading"                              \* zipfile.readEntry()
  /\ ztarget' = "none"
  /\ UNCHANGED <<archive, archiveOpens, zpos, artifacts, promise, settleCalls>>

\* readStream 'end', lines 184-187, and the callback given to
\* extractFileFromZip: lines 57-67, 78-86 or 98-106
OnStreamEnd ==
  /\ zstate = "streaming"
  /\ archive[zpos].body # "read-fails"
  /\ LET parsed == ParsePlist(archive[zpos].body)
     IN  IF ztarget = "infoPlist"
         THEN IF parsed # None
              THEN /\ artifacts' =
                        [artifacts EXCEPT
                           !.infoPlist = parsed,
                           !.appBundle = Some(Dirname(archive[zpos].fileName))]
                   /\ zstate' = "reading"             \* zipfile.readEntry()
                   /\ UNCHANGED <<promise, settleCalls>>
              ELSE /\ promise' = Settle(promise, "rejected",
                                   "Could not parse Info.plist: " \o "bad plist")
                   /\ settleCalls' = settleCalls + 1
                   /\ zstate' = "stalled"             \* return without readEntry
                   /\ UNCHANGED artifacts
         ELSE /\ artifacts' = IF parsed # None
                              THEN [artifacts EXCEPT ![ztarget] = parsed]
                              ELSE artifacts
              /\ zstate' = "reading"                  \* zipfile.readEntry()
              /\ UNCHANGED <<promise, settleCalls>>
  /\ ztarget' = "none"
  /\ UNCHANGED <<archive, archiveOpens, zpos>>

ParseIPAStep ==
  \/ OnOpen
  \/ OnEntry
  \/ OnEnd
  \/ OnZipError
  \/ OnOpenReadStream
  \/ OnStreamError
  \/ OnStreamEnd

(***************************************************************************)
(* The file system the validator reads                                     *)
(***************************************************************************)
Entry(fileName, body) == [fileName |-> fileName, body |-> body]

NoFiles == [n \in {} |-> ""]

Missing == [kind |-> "missing", files |-> NoFiles, entries |-> <<>>, opens |-> FALSE]

Directory(files) ==
  [kind |-> "dir", files |-> files, entries |-> <<>>, opens |-> FALSE]

\* a regular file; entries and opens say what yauzl makes of it
File(entries, opens) ==
  [kind |-> "file", files |-> NoFiles, entries |-> entries, opens |-> opens]

BuildPaths ==
  {"/non/existent/path", "/tmp/invalid.txt", "/tmp/Dir.ipa",
   "/tmp/TestApp.app", "/tmp/Debug/Minimal.app", "/tmp/Empty.app",
   "/tmp/Broken.app", "/proj/build/TestApp.ipa", "/tmp/Nested.ipa",
   "/tmp/Corrupt.ipa", "/tmp/Damaged.ipa"}

\* fs.existsSync / fs.statSync / yauzl.open of a build path
BuildFS(p) ==
  CASE p = "/tmp/invalid.txt" -> File(<<>>, FALSE)
    [] p = "/tmp/Dir.ipa" -> Directory(NoFiles)
    [] p = "/tmp/TestApp.app" -> Directory("Info.plist" :> "plist:main")
    [] p = "/tmp/Debug/Minimal.app" ->
         Directory(("Info.plist" :> "plist:minimal")
                     @@ ("PrivacyInfo.xcprivacy" :> "plist:privacy"))
    [] p = "/tmp/Empty.app" -> Directory("embedded.mobileprovision" :> "binary")
    [] p = "/tmp/Broken.app" -> Directory("Info.plist" :> "garbage")
    [] p = "/proj/build/TestApp.ipa" ->
         File(<< Entry("Payload/Main.app/Main", "binary"),
                 Entry("Payload/Main.app/PlugIns/Share.appex/Info.plist",
                       "plist:nested"),
                 Entry("Payload/Main.app/Info.plist", "plist:main"),
                 Entry("Payload/Main.app/Frameworks/Lib.framework/PrivacyInfo.xcprivacy",
                       "plist:privacy") >>, TRUE)
    [] p = "/tmp/Nested.ipa" ->
         File(<< Entry("Payload/Main.app/Info.plist", "read-fails"),
                 Entry("Payload/Main.app/Watch/Companion.app/Info.plist",
                       "plist:nested") >>, TRUE)
    [] p = "/tmp/Corrupt.ipa" -> File(<<>>, FALSE)
    [] p = "/tmp/Damaged.ipa" ->
         File(<< Entry("Payload/Main.app/Info.plist", "open-fails"),
                 Entry("Payload/Main.app/Main", "corrupt-header") >>, TRUE)
    [] OTHER -> Missing

\* the directories that hold a package.json and an ios directory, and those
\* of them whose ios directory holds a fastlane directory
ProjectRoots == {"/proj"}

FastlaneRoots == {"/proj"}

\* JSON.parse of the metadata documents; keywords is tagged with whether it
\* is an array, every other value is a string
ReadmeMetadata ==
  [appName |-> "My Awesome App",
   description |-> "A great app that does amazing things...",
   keywords |-> [isArray |-> TRUE,
                 value |-> <<"productivity", "utility", "business">>],
   category |-> "Productivity",
   privacyPolicyUrl |-> "https://myapp.com/privacy",
   supportUrl |-> "https://myapp.com/support"]

\* keywords written as one string, an app name over the limit, an account
FlatKeywordsMetadata ==
  [appName |-> "ACME Account Manager for Teams and Families",
   description |-> "Sign in, edit your profile and close account at any time.",
   keywords |-> [isArray |-> FALSE, value |-> "accounts,teams,family"]]

MetadataPaths ==
  {"/meta/metadata.json", "/meta/flat-keywords.json", "/meta/missing.json",
   "/meta/broken.json"}

\* fs.existsSync, fs.readFileSync and JSON.parse of a metadata path
MetaFS(p) ==
  CASE p = "/meta/metadata.json" ->
         [exists |-> TRUE, parses |-> TRUE, value |-> Some(ReadmeMetadata)]
    [] p = "/meta/flat-keywords.json" ->
         [exists |-> TRUE, parses |-> TRUE, value |-> Some(FlatKeywordsMetadata)]
    [] p = "/meta/broken.json" ->
         [exists |-> TRUE, parses |-> FALSE, value |-> None]
    [] OTHER -> [exists |-> FALSE, parses |-> FALSE, value |-> None]

\* an Error object: its class, its message and its stack
Error(kind, message) ==
  [kind |-> kind, message |-> message,
   stack |-> kind \o ": " \o message \o "\n    at <anonymous>"]

\* what a call returns or throws
Returns(value) == [threw |-> FALSE, value |-> value]

Throws(error) == [threw |-> TRUE, value |-> error]

(***************************************************************************)
(* PrivacyComplianceRule, src/src/rules/privacy-rule.js                    *)
(***************************************************************************)
PC == "privacy-compliance"

\* PRIVACY_PERMISSION_KEYS, src/src/utils/index.js:336-355
PRIVACY_PERMISSION_KEYS ==
  <<"NSCameraUsageDescription", "NSLocationWhenInUseUsageDescription",
    "NSLocationAlwaysAndWhenInUseUsageDescription",
    "NSPhotoLibraryUsageDescription", "NSPhotoLibraryAddUsageDescription",
    "NSMicrophoneUsageDescription", "NSContactsUsageDescription",
    "NSCalendarsUsageDescription", "NSRemindersUsageDescription",
    "NSMotionUsageDescription", "NSHealthUpdateUsageDescription",
    "NSHealthShareUsageDescription", "NSBluetoothAlwaysUsageDescription",
    "NSBluetoothPeripheralUsageDescription", "NSUserTrackingUsageDescription",
    "NSSpeechRecognitionUsageDescription", "NSFaceIDUsageDescription",
    "NSLocalNetworkUsageDescription">>

PrivacySensitiveKeys ==
  <<"NSCameraUsageDescription", "NSLocationWhenInUseUsageDescription",
    "NSLocationAlwaysAndWhenInUseUsageDescription",
    "NSUserTrackingUsageDescription", "NSFaceIDUsageDescription",
    "NSContactsUsageDescription">>

GenericPhrases ==
  <<"for easy authentication", "to access camera", "to access location",
    "app needs this", "required for functionality">>

DESCRIPTION_SHORT_LENGTH == 30

\* the regular expression /Payload\/[^/]+\.app\/PrivacyInfo\.xcprivacy$/,
\* which is not anchored at the start
MatchesPrivacyManifestSuffix(s) ==
  LET tail == ".app/PrivacyInfo.xcprivacy"
      head == "Payload/"
  IN  /\ EndsWith(s, tail)
      /\ \E i \in 1..(Len(s) - Len(tail) - Len(head)) :
           /\ SubSeq(s, i, i + Len(head) - 1) = head
           /\ ~Includes(SubSeq(s, i + Len(head), Len(s) - Len(tail)), "/")

\* checkIPAForPrivacyManifest, lines 84-115: the entries are read in order
\* up to the first match, the first unreadable one or the end
RECURSIVE ScanForPrivacyManifest(_)
ScanForPrivacyManifest(entries) ==
  IF entries = <<>> THEN Returns(FALSE)
  ELSE IF Head(entries).body = "corrupt-header"
       THEN Throws(Error("Error", "invalid entry header"))
  ELSE IF MatchesPrivacyManifestSuffix(Head(entries).fileName)
       THEN Returns(TRUE)
  ELSE ScanForPrivacyManifest(Tail(entries))

CheckIPAForPrivacyManifest(ipaPath) ==
  IF BuildFS(ipaPath).kind # "file" \/ ~BuildFS(ipaPath).opens
  THEN Throws(Error("Error", "ENOENT"))
  ELSE ScanForPrivacyManifest(BuildFS(ipaPath).entries)

\* determineIfPrivacyManifestRequired, lines 117-132
DetermineIfPrivacyManifestRequired(p) ==
  AnyOf(PrivacySensitiveKeys, LAMBDA key : Truthy(p, key))

\* checkPrivacyManifest, lines 37-82: the finding, or nothing for null
CheckPrivacyManifest(p, path) ==
  LET scan == IF EndsWith(path, ".ipa")
              THEN CheckIPAForPrivacyManifest(path)
              ELSE Returns(/\ EndsWith(path, ".app")
                           /\ BuildFS(path).kind = "dir"
                           /\ "PrivacyInfo.xcprivacy"
                                \in DOMAIN BuildFS(path).files)
  IN  IF scan.threw
      THEN << Result(PC, "LOW", "Could not verify privacy manifest presence",
                     "Error checking for privacy manifest: "
                       \o scan.value.message,
                     "Manually verify PrivacyInfo.xcprivacy exists in your app bundle") >>
      ELSE IF scan.value THEN <<>>
      ELSE IF ~DetermineIfPrivacyManifestRequired(p)
      THEN << Result(PC, "INFO",
                     "Privacy manifest not found, but may not be required",
                     "Your app may not use privacy-impacting APIs that require a manifest",
                     "Review if your app uses required reason APIs: https://developer.apple.com/documentation/bundleresources/privacy_manifest_files") >>
      ELSE << Result(PC, "HIGH",
                     "Privacy manifest file (PrivacyInfo.xcprivacy) not found",
                     "Required for apps using privacy-impacting APIs as of May 2024",
                     "Add PrivacyInfo.xcprivacy to your app bundle root directory") >>

\* lines 137-175, for one key
PermissionDescriptionFindings(p, key) ==
  IF ~Truthy(p, key) THEN <<>>
  ELSE LET description == p[key]
       IN  When(Len(description) < DESCRIPTION_SHORT_LENGTH,
                Result(PC, "MEDIUM", key \o " description too short",
                       "Current: \"" \o description \o "\" ("
                         \o ToString(Len(description)) \o " characters)",
                       "Provide a clear, detailed explanation of why this permission is needed (minimum 30 characters)"))
           \o When(AnyOf(GenericPhrases,
                         LAMBDA phrase :
                           Includes(ToLowerCase(description), phrase)),
                   Result(PC, "LOW", key \o " has generic description",
                          "Consider providing more specific explanation: \""
                            \o description \o "\"",
                          "Explain specifically how your app uses this permission"))

\* checkPermissionDescriptions, lines 134-178
RECURSIVE CheckPermissionDescriptions(_, _)
CheckPermissionDescriptions(p, keys) ==
  IF keys = <<>> THEN <<>>
  ELSE PermissionDescriptionFindings(p, Head(keys))
       \o CheckPermissionDescriptions(p, Tail(keys))

\* checkPrivacyImpactingAPIs, lines 180-200
CheckPrivacyImpactingAPIs(p) ==
  When(Truthy(p, "NSLocationAlwaysAndWhenInUseUsageDescription")
         /\ Truthy(p, "NSLocationWhenInUseUsageDescription"),
       Result(PC, "MEDIUM",
              "App requests both always and when-in-use location access",
              "Consider if always access is truly necessary for core functionality",
              "Use most restrictive location permission possible"))

\* PrivacyComplianceRule.validate, lines 16-35
PrivacyValidate(plist, path) ==
  IF plist = None THEN <<>>
  ELSE CheckPrivacyManifest(plist[1], path)
       \o CheckPermissionDescriptions(plist[1], PRIVACY_PERMISSION_KEYS)
       \o CheckPrivacyImpactingAPIs(plist[1])

(***************************************************************************)
(* AccountDeletionRule, src/src/rules/account-deletion-rule.js             *)
(***************************************************************************)
AD == "account-deletion"

SocialSchemes == <<"fb", "google", "twitter", "linkedin", "apple">>

AccountKeywords ==
  <<"login", "account", "register", "signup", "profile", "user">>

DeletionKeywords == <<"delete", "deletion", "remove account", "close account">>

\* (metadata[k] || '').toLowerCase()
LowerText(m, k) == IF Truthy(m, k) THEN ToLowerCase(m[k]) ELSE ""

\* lines 86-107: at most one indicator, for the first keyword found
MetadataIndicators(meta) ==
  IF meta = None THEN <<>>
  ELSE LET found ==
             SelectSeq(AccountKeywords,
                       LAMBDA keyword :
                         \/ Includes(LowerText(meta[1], "description"), keyword)
                         \/ Includes(LowerText(meta[1], "appName"), keyword))
       IN  IF found = <<>> THEN <<>>
           ELSE << "Account-related term in metadata: " \o Head(found) >>

\* lines 110-115: plist.com.apple.developer.icloud or .ubiquity
ICloudIndicators(p) ==
  When(/\ Has(p, "com") /\ Has(p.com, "apple") /\ Has(p.com.apple, "developer")
       /\ \/ Has(p.com.apple.developer, "icloud")
          \/ Has(p.com.apple.developer, "ubiquity"),
       "iCloud integration")

\* detectAccountFeatures, lines 45-121: the indicators
DetectAccountFeatures(plist, meta) ==
  IF plist = None THEN <<>>
  ELSE LET p == plist[1]
       IN  When(Truthy(p, "NSUserTrackingUsageDescription"),
                "User tracking permission")
           \o When(Truthy(p, "NSContactsUsageDescription"), "Contacts access")
           \o (IF ~Truthy(p, "CFBundleURLTypes") THEN <<>>
               ELSE ForEach(UrlSchemes(p.CFBundleURLTypes),
                            LAMBDA scheme :
                              AnyOf(SocialSchemes,
                                    LAMBDA social :
                                      Includes(ToLowerCase(scheme), social)),
                            LAMBDA scheme :
                              "Social login URL scheme: " \o scheme))
           \o MetadataIndicators(meta)
           \o ICloudIndicators(p)

\* validateAccountDeletionImplementation, lines 123-200
ValidateAccountDeletionImplementation(meta) ==
  (IF meta = None THEN <<>>
   ELSE LET m == meta[1]
            description == LowerText(m, "description")
        IN  << IF AnyOf(DeletionKeywords,
                        LAMBDA keyword : Includes(description, keyword))
               THEN Result(AD, "INFO", "App metadata mentions account deletion",
                           "Good - app appears to address account deletion requirements",
                           "Ensure the deletion process is easily accessible within the app")
               ELSE Result(AD, "MEDIUM",
                           "No account deletion mentioned in app metadata",
                           "Consider adding information about account deletion in app description",
                           "Update app description to mention account deletion capabilities"),
               IF Truthy(m, "privacyPolicyUrl") \/ Truthy(m, "supportUrl")
               THEN Result(AD, "INFO", "Privacy policy or support URL provided",
                           "Users can contact for account deletion if not available in-app",
                           "Ensure support contacts can handle account deletion requests")
               ELSE Result(AD, "HIGH",
                           "No privacy policy or support URL provided",
                           "Account-based apps must provide way to contact for account deletion",
                           "Add privacy policy URL or support contact information") >>)
  \o << Result(AD, "INFO", "Account deletion implementation checklist",
               "Verify the following account deletion requirements are met",
               "<the five-item checklist of lines 193-197>") >>

\* AccountDeletionRule.validate, lines 19-43
AccountDeletionValidate(plist, meta) ==
  LET indicators == DetectAccountFeatures(plist, meta)
  IN  IF indicators = <<>> THEN <<>>
      ELSE << Result(AD, "HIGH",
                     "App appears to use accounts - ensure account deletion is implemented",
                     "Indicators: " \o Join(indicators, ", "),
                     "Implement in-app account deletion or provide deletion instructions accessible within the app") >>
           \o ValidateAccountDeletionImplementation(meta)

(***************************************************************************)
(* CodeSigningRule, src/unnamed/part_004                                   *)
(***************************************************************************)
CS == "code-signing"

\* the platforms process.platform is drawn from
Platforms == {"darwin", "linux"}

\* findProjectRoot, lines 185-200: the nearest ancestor that is a project
\* root, or None
RECURSIVE FindProjectRootFrom(_)
FindProjectRootFrom(currentDir) ==
  IF currentDir = Dirname(currentDir) THEN None
  ELSE IF currentDir \in ProjectRoots THEN Some(currentDir)
  ELSE FindProjectRootFrom(Dirname(currentDir))

FindProjectRoot(path) == FindProjectRootFrom(Dirname(path))

\* detectBuildContext, lines 46-88
DetectBuildContext(path, plat) ==
  IF plat # "darwin"
  THEN [platform |-> plat, buildType |-> "unknown", hasFastlane |-> FALSE,
        reason |-> "Code signing verification only available on macOS",
        suggestion |-> "Run validation on macOS for complete code signing verification"]
  ELSE LET root == FindProjectRoot(path)
           hasFastlane == root # None /\ root[1] \in FastlaneRoots
           debug == Includes(path, "Debug") \/ Includes(path, "debug")
           release == Includes(path, "Release") \/ Includes(path, "release")
       IN  [platform |-> plat,
            buildType |-> IF debug THEN "debug"
                          ELSE IF release THEN "release" ELSE "unknown",
            hasFastlane |-> hasFastlane,
            reason |-> IF debug
                       THEN "Debug build detected - code signing verification not critical"
                       ELSE IF hasFastlane
                       THEN "Fastlane detected - code signing managed automatically"
                       ELSE "",
            suggestion |-> IF debug
                           THEN "Code signing is more important for Release/App Store builds"
                           ELSE IF hasFastlane
                           THEN "Verify Fastlane configuration and successful builds"
                           ELSE ""]

\* shouldSkipCodeSigningCheck, lines 90-107
ShouldSkipCodeSigningCheck(context) ==
  \/ context.platform # "darwin"
  \/ context.buildType = "debug"
  \/ context.hasFastlane

\* execSync of codesign, lines 111-124: the bundles of the model are not
\* signed, and codesign does not take an archive
ExecCodesign(path) ==
  IF EndsWith(path, ".ipa")
  THEN Throws(Error("Error",
                    "Command failed: codesign --verify --deep --strict \""
                      \o path \o "\"\n" \o path
                      \o ": bundle format unrecognized, invalid, or unsuitable"))
  ELSE IF BuildFS(path).kind = "missing"
  THEN Throws(Error("Error",
                    "Command failed: codesign --verify --verbose=4 \""
                      \o path \o "\"\n" \o path
                      \o ": No such file or directory"))
  ELSE Throws(Error("Error",
                    "Command failed: codesign --verify --verbose=4 \""
                      \o path \o "\"\n" \o path
                      \o ": code object is not signed at all"))

\* verifyCodeSignature, lines 126-139, on the output of a run that succeeded
VerifyCodeSignature(output) ==
  When(Includes(output, "invalid"),
       Result(CS, "CRITICAL", "Invalid code signature detected", output,
              "Re-sign the app with valid certificates and provisioning profiles"))

\* handleCodeSigningError, lines 141-183
HandleCodeSigningError(error, context) ==
  IF Includes(error.message, "code object is not signed at all")
  THEN IF context.hasFastlane
       THEN Result(CS, "INFO", "Build appears unsigned, but Fastlane detected",
                   "Fastlane typically handles code signing during distribution",
                   "Verify your Fastlane configuration includes proper match/code signing steps")
       ELSE Result(CS, "HIGH", "Build is not code signed",
                   "Code signing is required for App Store distribution",
                   "Configure code signing in Xcode or use Fastlane match for automatic signing")
  ELSE IF Includes(error.message, "No such file or directory")
  THEN Result(CS, "MEDIUM",
              "Could not verify code signature - file access issue",
              error.message, "Ensure the build path is correct and accessible")
  ELSE Result(CS, "LOW", "Could not verify code signature", error.message,
              "Manually verify code signing configuration in Xcode")

\* CodeSigningRule.validate, lines 11-44
CodeSigningValidate(path, plat) ==
  LET context == DetectBuildContext(path, plat)
      run == ExecCodesign(path)
  IN  IF ShouldSkipCodeSigningCheck(context)
      THEN << NewResult(CS, "INFO", "Code signing verification skipped",
                        context.reason, context.suggestion, "manual") >>
      ELSE IF run.threw THEN << HandleCodeSigningError(run.value, context) >>
      ELSE VerifyCodeSignature(run.value)

(***************************************************************************)
(* Custom rules: what the validate method of each custom module does       *)
(***************************************************************************)
\* README.md, custom-rules/company-branding-rule.js
CompanyBrandingValidate(meta) ==
  IF meta = None THEN <<>>
  ELSE When(Truthy(meta[1], "appName")
              /\ ~Includes(meta[1].appName, "ACME"),
            Result("COMPANY_BRANDING", "MEDIUM",
                   "App name should include company branding",
                   "Current name: " \o meta[1].appName,
                   "Add \"ACME\" to the app name for brand consistency"))

\* a company rule registered under the built-in name 'metadata'
MetadataOverrideValidate(meta) ==
  When(meta = None,
       Result("metadata", "LOW", "Company metadata sheet missing",
              "No metadata was loaded for this run",
              "Pass the metadata sheet with --metadata"))

\* rule.validate(this) for one entry of this.rules: what it returns or throws
RuleValidate(rule, plist, meta, path, plat) ==
  CASE rule.cls = "InfoPlistValidationRule" -> Returns(InfoPlistValidate(plist))
    [] rule.cls = "PrivacyComplianceRule" -> Returns(PrivacyValidate(plist, path))
    [] rule.cls = "AccountDeletionRule" ->
         Returns(AccountDeletionValidate(plist, meta))
    [] rule.cls = "PermissionsRule" -> Returns(PermissionsValidate(plist))
    [] rule.cls = "AssetsRule" -> Returns(AssetsValidate(plist))
    [] rule.cls = "CodeSigningRule" -> Returns(CodeSigningValidate(path, plat))
    [] rule.cls = "LocalizationRule" -> Returns(LocalizationValidate(plist))
    [] rule.cls = "PerformanceRule" -> Returns(PerformanceValidate(plist))
    [] rule.cls = "ContentPolicyRule" -> Returns(ContentPolicyValidate(plist))
    [] rule.cls = "MetadataRule" ->
         IF KeywordsJoinThrows(meta)
         THEN Throws(Error("TypeError", "metadata.keywords.join is not a function"))
         ELSE Returns(MetadataFindings(meta))
    [] rule.cls = "./custom-rules/company-branding-rule.js" ->
         Returns(CompanyBrandingValidate(meta))
    [] rule.cls = "./custom-rules/metadata-override-rule.js" ->
         Returns(MetadataOverrideValidate(meta))
    [] rule.cls = "./custom-rules/throwing-rule.js" ->
         Throws(Error("Error", "Branding service unreachable"))
    [] rule.cls = "InlineBrandingRule" -> Returns(<<>>)
    [] OTHER -> Throws(Error("TypeError", "rule.validate is not a function"))

(***************************************************************************)
(* validate(): the pieces                                                  *)
(***************************************************************************)
\* a validateInputs that only looks whether the path exists
ValidateInputsExistsOnly(path) ==
  IF BuildFS(path).kind = "missing"
  THEN Some(Error("Error", "Build path does not exist: " \o path))
  ELSE None

\* a validateInputs with one message for every bad path
ValidateInputsOneMessage(path) ==
  IF \/ BuildFS(path).kind = "dir" /\ EndsWith(path, ".app")
     \/ BuildFS(path).kind = "file" /\ EndsWith(path, ".ipa")
  THEN None
  ELSE Some(Error("Error", "Build path does not exist: " \o path))

\* validateInputs, lines 166-179: the error it throws, or None
ValidateInputs(path) ==
  IF BuildFS(path).kind = "missing"
  THEN Some(Error("Error", "Build path does not exist: " \o path))
  ELSE IF \/ BuildFS(path).kind = "dir" /\ EndsWith(path, ".app")
          \/ BuildFS(path).kind = "file" /\ EndsWith(path, ".ipa")
       THEN None
       ELSE Some(Error("Error",
                       "Build path must be either a .app directory or .ipa file"))

\* plist.parse of an optional file of a bundle: None when the file is not
\* there or does not parse
OptionalPlist(files, name) ==
  IF name \in DOMAIN files THEN ParsePlist(files[name]) ELSE None

\* FileParser.parseAppBundle, src/src/utils/index.js:128-172
ParseAppBundle(appPath) ==
  LET files == BuildFS(appPath).files
  IN  IF "Info.plist" \notin DOMAIN files
      THEN Throws("Info.plist not found in app bundle")
      ELSE IF ParsePlist(files["Info.plist"]) = None
      THEN Throws("Could not parse Info.plist: " \o "bad plist")
      ELSE Returns([infoPlist |-> ParsePlist(files["Info.plist"]),
                    appBundle |-> Some(appPath),
                    entitlements |->
                      OptionalPlist(files, "archived-expanded-entitlements.xcent"),
                    privacyManifest |->
                      OptionalPlist(files, "PrivacyInfo.xcprivacy")])

(***************************************************************************)
(* The reporters, src/unnamed/part_003.  A report is modelled by the       *)
(* document its text encodes.                                              *)
(***************************************************************************)
\* escapeXml, lines 144-152, for one character
EscapeChar(c) ==
  CASE c = "&" -> "&amp;"
    [] c = "<" -> "&lt;"
    [] c = ">" -> "&gt;"
    [] c = "\"" -> "&quot;"
    [] c = "'" -> "&apos;"
    [] OTHER -> c

\* escapeXml, lines 144-152: '' for a null or empty argument
RECURSIVE EscapeXml(_)
EscapeXml(str) ==
  IF str = Null THEN ""
  ELSE IF Len(str) <= 1 THEN EscapeChar(str)
  ELSE EscapeXml(SubSeq(str, 1, Len(str) \div 2))
         \o EscapeXml(SubSeq(str, Len(str) \div 2 + 1, Len(str)))

\* a test for failure that takes Medium findings for failures too
IsFailureFromMedium(result) == result.severity \in {"CRITICAL", "HIGH", "MEDIUM"}

\* line 105
IsFailure(result) == result.severity \in {"CRITICAL", "HIGH"}

\* lines 104-118: the testcase element of one finding, with its failure
\* element if it has one
TestCase(result) ==
  [name |-> EscapeXml(result.rule),
   classname |-> "AppStoreValidation",
   failure |-> IF IsFailure(result)
               THEN Some([message |-> EscapeXml(result.message),
                          type |-> result.severity,
                          text |-> EscapeXml(result.details)])
               ELSE None]

\* generateJUnitReport, lines 102-127: the testsuite element
GenerateJUnitReport(res, summary) ==
  [name |-> "AppStoreValidation",
   tests |-> Len(res),
   failures |-> summary.critical + summary.high,
   testCases |-> [i \in 1..Len(res) |-> TestCase(res[i])]]

\* a toJSON that leaves the fix kind out
ToJSONWithoutFixType(result) ==
  [rule |-> result.rule, severity |-> result.severity,
   message |-> result.message, details |-> result.details,
   fix |-> result.fix]

\* ValidationResult.toJSON, src/src/utils/index.js:277-287; the timestamp
\* is left out
ToJSON(result) ==
  [rule |-> result.rule, severity |-> result.severity,
   message |-> result.message, details |-> result.details,
   fix |-> result.fix, fixType |-> result.fixType]

\* generateJsonReport, lines 90-100: the object JSON.stringify is given
GenerateJsonReport(res, summary) ==
  [summary |-> summary,
   results |-> [i \in 1..Len(res) |-> ToJSON(res[i])],
   generatedAt |-> "<now>"]

\* lines 22-31: the passed rules the report lists
PassedSection(summary) ==
  IF Has(summary, "passedRules") /\ Len(summary.passedRules) > 0
  THEN summary.passedRules
  ELSE <<>>

\* lines 49-74: the sections of the severities that have findings
IssueSections(res) ==
  LET order == <<"CRITICAL", "HIGH", "MEDIUM", "LOW", "INFO">>
      issues(severity) == SelectSeq(res, LAMBDA r : r.severity = severity)
      present == SelectSeq(order, LAMBDA severity : issues(severity) # <<>>)
  IN  [i \in 1..Len(present) |->
         [severity |-> present[i], issues |-> issues(present[i])]]

\* generateConsoleReport, lines 8-88
GenerateConsoleReport(res, summary) ==
  [total |-> summary.total, critical |-> summary.critical,
   high |-> summary.high, medium |-> summary.medium, low |-> summary.low,
   info |-> summary.info,
   passed |-> PassedSection(summary),
   sections |-> IssueSections(res),
   closing |-> IF Len(res) = 0 THEN "All validations passed"
               ELSE IF summary.critical > 0 THEN "CRITICAL ISSUES DETECTED"
               ELSE IF summary.high > 0 THEN "High-risk issues found"
               ELSE "No critical issues found"]

\* generateSummary, lines 273-285; the timestamp is left out
CountOf(res, severity) ==
  Len(SelectSeq(res, LAMBDA r : r.severity = severity))

GenerateSummary(res, path, m) ==
  [total |-> Len(res),
   critical |-> CountOf(res, "CRITICAL"),
   high |-> CountOf(res, "HIGH"),
   medium |-> CountOf(res, "MEDIUM"),
   low |-> CountOf(res, "LOW"),
   info |-> CountOf(res, "INFO"),
   buildPath |-> path,
   rulesRun |-> MapKeys(m)]

\* generateReport, lines 260-271: the reporter chosen by options.output and
\* what it is given
GenerateReport(res, path, m, opts) ==
  LET summary == GenerateSummary(res, path, m)
  IN  [format |-> IF opts.output \in {"json", "junit"} THEN opts.output
                  ELSE "console",
       summary |-> summary,
       results |-> res,
       document |-> CASE opts.output = "json" -> GenerateJsonReport(res, summary)
                      [] opts.output = "junit" -> GenerateJUnitReport(res, summary)
                      [] OTHER -> GenerateConsoleReport(res, summary)]

Report(report) == [kind |-> "report", report |-> report]

Rejection(error) == [kind |-> "rejected", error |-> error]

\* a catch that reports the fatal error as a High finding without its stack
FatalFindingAsHigh(error) ==
  NewResult("SYSTEM", "HIGH", "Validation failed: " \o error.message,
            Null, Null, "fix")

\* lines 154-161: the finding of a fatal error
FatalFinding(error) ==
  NewResult("SYSTEM", "CRITICAL", "Validation failed: " \o error.message,
            error.stack, Null, "fix")

\* lines 211-218
MetadataFailureFinding(error, path) ==
  NewResult("METADATA_LOADING", "MEDIUM",
            "Failed to load metadata: " \o error.message,
            "Path: " \o path, Null, "fix")

\* a catch that reports a rule's failure as a High finding and under a
\* fixed name
RuleFailureFindingAltered(name, error) ==
  NewResult("SYSTEM", "HIGH", "Rule execution failed: " \o error.message,
            error.stack, "Check rule implementation or file a bug report",
            "fix")

\* lines 233-241
RuleFailureFinding(name, error) ==
  NewResult(name, "MEDIUM", "Rule execution failed: " \o error.message,
            error.stack, "Check rule implementation or file a bug report",
            "fix")

(***************************************************************************)
(* validate() as actions: one action per piece of code that runs between   *)
(* two suspensions of the call                                             *)
(***************************************************************************)
\* the number of validate calls made on one validator instance
MaxRuns == 3

Stage(op, name) == [op |-> op, name |-> name]

\* what a completed validate call is remembered by: its two arguments and
\* this.results when it returned or threw
RunRecord(path, metaPath, res) ==
  [buildPath |-> path, metadataPath |-> metaPath, results |-> res]

\* the history of completed calls: the first one is kept, and only where
\* the specification follows it
Remember(path, metaPath, res) ==
  IF firstRun.followed /\ firstRun.run = None
  THEN [firstRun EXCEPT !.run = Some(RunRecord(path, metaPath, res))]
  ELSE firstRun

\* the names of the validate calls that may overlap on one instance
Calls == {"first", "second"}

\* a call that was not made yet: the metadataPath argument, the promise of
\* the parser, the iterator of the rule loop, what the call gave its
\* caller, and as history the findings the call itself added and whether
\* it ran with no other call in progress
CallIdle ==
  [pc |-> "idle", metadataPath |-> None, parsed |-> None, ruleIdx |-> 0,
   outcome |-> None, own |-> <<>>, alone |-> TRUE]

NoCalls == [c \in Calls |-> CallIdle]

\* the engine before the first validate call, lines 25-29
EngineFresh ==
  /\ results = <<>>
  /\ buildPath = None
  /\ infoPlist = None
  /\ metadata = None
  /\ pc = "idle"
  /\ metadataPath = None
  /\ ruleIdx = 0
  /\ outcome = None
  /\ runs = 0
  /\ log = <<>>
  /\ exitCode = None

\* the same, in a specification that keeps no history of completed calls
EngineIdle ==
  /\ EngineFresh
  /\ firstRun = [followed |-> FALSE, run |-> None]
  /\ inFlight = NoCalls

\* parseAppBundle(path) has no suspension of its own: the promise
\* parseBuildArtifacts awaits is settled when the call returns
ParseAppBundleCall(path) ==
  LET r == ParseAppBundle(path)
  IN  /\ promise' = Settle(PendingPromise,
                           IF r.threw THEN "rejected" ELSE "resolved", r.value)
      /\ settleCalls' = 1
      /\ archive' = <<>>
      /\ archiveOpens' = TRUE
      /\ zstate' = "idle"
      /\ zpos' = 0
      /\ ztarget' = "none"
      /\ artifacts' = IF r.threw THEN EmptyArtifacts ELSE r.value

\* validate(path, metaPath), lines 130-142 and 184-191: up to the rejection
\* by validateInputs, or up to the await of the parser's promise
ValidateCall(path, metaPath) ==
  /\ buildPath' = Some(path)
  /\ results' = <<>>
  /\ metadataPath' = metaPath
  /\ runs' = runs + 1
  /\ ruleIdx' = 0
  /\ UNCHANGED <<infoPlist, metadata, inFlight, platform, exitCode>>
  /\ IF ValidateInputs(path) # None
     THEN /\ outcome' = Some(Rejection(ValidateInputs(path)[1]))
          /\ pc' = "done"
          /\ log' = << Stage("validateInputs", "") >>
          /\ firstRun' = Remember(path, metaPath, <<>>)
          /\ UNCHANGED zipVars
     ELSE /\ outcome' = None
          /\ pc' = "parse"
          /\ UNCHANGED firstRun
          /\ log' = << Stage("validateInputs", ""),
                       Stage("parseBuildArtifacts", "") >>
          /\ IF EndsWith(path, ".ipa")
             THEN ParseIPACall(BuildFS(path).entries, BuildFS(path).opens)
             ELSE ParseAppBundleCall(path)

StartValidate(path, metaPath) ==
  /\ phase = "ready"
  /\ pc \in {"idle", "done"}
  /\ runs < MaxRuns
  /\ ValidateCall(path, metaPath)
  /\ UNCHANGED regVars

\* the events of the archive scan while validate awaits parseIPA
ZipStep ==
  /\ pc = "parse"
  /\ ParseIPAStep
  /\ UNCHANGED <<regVars, engVars>>

\* lines 187-197 and 145-164 after the parser's promise settled: the
\* manifest is stored, or the error is wrapped, caught and reported
AfterParse ==
  /\ pc = "parse"
  /\ promise.state # "pending"
  /\ IF promise.state = "resolved"
     THEN /\ infoPlist' = promise.value[1].infoPlist
          /\ pc' = IF metadataPath # None THEN "metadata" ELSE "rules"
          /\ ruleIdx' = 1
          /\ UNCHANGED <<results, outcome, log, firstRun>>
     ELSE LET error == Error("Error", "Failed to parse build artifacts: "
                                        \o promise.value[1])
              res == Append(results, FatalFinding(error))
          IN  /\ results' = res
              /\ outcome' = Some(Report(GenerateReport(res, buildPath[1],
                                                       rules, options)))
              /\ pc' = "done"
              /\ log' = Append(log, Stage("generateReport", ""))
              /\ firstRun' = Remember(buildPath[1], metadataPath, res)
              /\ UNCHANGED <<infoPlist, ruleIdx>>
  /\ UNCHANGED <<buildPath, metadata, metadataPath, runs, inFlight, platform,
                 exitCode>>
  /\ UNCHANGED <<regVars, zipVars>>

\* loadMetadata whose catch block ends the call with the report
LoadMetadataStopping ==
  /\ pc = "metadata"
  /\ LET path == metadataPath[1]
         file == MetaFS(path)
     IN  IF file.exists /\ file.parses
         THEN /\ metadata' = file.value
              /\ pc' = "rules"
              /\ log' = Append(log, Stage("loadMetadata", ""))
              /\ UNCHANGED <<results, outcome, firstRun>>
         ELSE LET error == Error("Error", "Metadata file does not exist: "
                                            \o path)
                  res == Append(results, MetadataFailureFinding(error, path))
              IN  /\ results' = res
                  /\ outcome' = Some(Report(GenerateReport(res, buildPath[1],
                                                           rules, options)))
                  /\ pc' = "done"
                  /\ log' = log \o << Stage("loadMetadata", ""),
                                       Stage("generateReport", "") >>
                  /\ firstRun' = Remember(buildPath[1], metadataPath, res)
                  /\ UNCHANGED metadata
  /\ UNCHANGED <<buildPath, infoPlist, metadataPath, ruleIdx, runs, inFlight,
                 platform, exitCode>>
  /\ UNCHANGED <<regVars, zipVars>>

\* loadMetadata(metadataPath), lines 199-220
LoadMetadata ==
  /\ pc = "metadata"
  /\ LET path == metadataPath[1]
         file == MetaFS(path)
     IN  IF file.exists /\ file.parses
         THEN /\ metadata' = file.value
              /\ UNCHANGED results
         ELSE LET error ==
                    IF ~file.exists
                    THEN Error("Error", "Metadata file does not exist: " \o path)
                    ELSE Error("SyntaxError",
                               "Unexpected token } in JSON at position 1")
              IN  /\ results' = Append(results,
                                       MetadataFailureFinding(error, path))
                  /\ UNCHANGED metadata
  /\ pc' = "rules"
  /\ log' = Append(log, Stage("loadMetadata", ""))
  /\ UNCHANGED <<buildPath, infoPlist, metadataPath, ruleIdx, outcome, runs,
                 firstRun, inFlight, platform, exitCode>>
  /\ UNCHANGED <<regVars, zipVars>>

\* a turn of the loop that puts the rule's findings before the others
RunRuleInFront ==
  /\ pc = "rules"
  /\ ruleIdx <= Len(rules)
  /\ LET rule == rules[ruleIdx]
         r == RuleValidate(rule, infoPlist, metadata, buildPath[1], platform)
     IN  /\ results' = IF r.threw
                       THEN << RuleFailureFinding(rule.name, r.value) >>
                              \o results
                       ELSE r.value \o results
         /\ log' = Append(log, Stage("rule", rule.name))
  /\ ruleIdx' = ruleIdx + 1
  /\ UNCHANGED <<buildPath, infoPlist, metadata, pc, metadataPath, outcome,
                 runs, firstRun, inFlight, platform, exitCode>>
  /\ UNCHANGED <<regVars, zipVars>>

\* runValidationRules, lines 225-243: one turn of the loop
RunRule ==
  /\ pc = "rules"
  /\ ruleIdx <= Len(rules)
  /\ LET rule == rules[ruleIdx]
         r == RuleValidate(rule, infoPlist, metadata, buildPath[1], platform)
     IN  /\ results' = IF r.threw
                       THEN Append(results, RuleFailureFinding(rule.name, r.value))
                       ELSE results \o r.value
         /\ log' = Append(log, Stage("rule", rule.name))
  /\ ruleIdx' = ruleIdx + 1
  /\ UNCHANGED <<buildPath, infoPlist, metadata, pc, metadataPath, outcome,
                 runs, firstRun, inFlight, platform, exitCode>>
  /\ UNCHANGED <<regVars, zipVars>>

\* line 152, after the loop
FinishRun ==
  /\ pc = "rules"
  /\ ruleIdx > Len(rules)
  /\ outcome' = Some(Report(GenerateReport(results, buildPath[1], rules,
                                           options)))
  /\ pc' = "done"
  /\ log' = Append(log, Stage("generateReport", ""))
  /\ firstRun' = Remember(buildPath[1], metadataPath, results)
  /\ UNCHANGED <<results, buildPath, infoPlist, metadata, metadataPath,
                 ruleIdx, runs, inFlight, platform, exitCode>>
  /\ UNCHANGED <<regVars, zipVars>>

ValidateStep == ZipStep \/ AfterParse \/ LoadMetadata \/ RunRule \/ FinishRun

(***************************************************************************)
(* Bounds of the registry specifications                                   *)
(***************************************************************************)
\* the total number of entries of the ignore, include, exclude and
\* customRules arrays given to one constructor call
MaxItems == 3

\* the number of registerRule calls made after the constructor returned
MaxRegs == 3

\* the rule names the ignore, include and exclude arrays are drawn from:
\* two built-in names, a custom rule's name, and a name nothing registers
NamePool == {"metadata", "assets", "COMPANY_BRANDING", "ghost-rule"}

\* the paths the customRules array is drawn from
PathPool == {"./custom-rules/company-branding-rule.js",
             "./custom-rules/metadata-override-rule.js",
             "./custom-rules/missing-file.js",
             "./custom-rules/not-a-class.js",
             "./custom-rules/no-validate-rule.js"}

ConfigPathPool == {None, Some("/cfg/ignore.config.js"),
                   Some("/cfg/custom.config.js"), Some("/cfg/broken.config.js")}

\* the rules registerRule is called with after construction
RegisterPool ==
  { [name |-> "metadata", cls |-> "MetadataRule"],
    [name |-> "metadata", cls |-> "./custom-rules/metadata-override-rule.js"],
    [name |-> "COMPANY_BRANDING",
     cls |-> "./custom-rules/company-branding-rule.js"],
    [name |-> "COMPANY_BRANDING", cls |-> "InlineBrandingRule"] }

\* the options object of a constructor call, from the arrays given
MakeOptions(hasIg, ig, hasIn, inc, hasEx, ex, hasCu, cu, cfgPath) ==
  LET ro == Spread(IF hasIn THEN [include |-> inc] ELSE EmptyObject,
                   IF hasEx THEN [exclude |-> ex] ELSE EmptyObject)
  IN  Spread(Spread([ruleOptions |-> ro, configPath |-> cfgPath],
                    IF hasIg THEN [ignore |-> ig] ELSE EmptyObject),
             IF hasCu THEN [customRules |-> cu] ELSE EmptyObject)

(***************************************************************************)
(* The constructor and registerRule as actions                             *)
(***************************************************************************)
\* new AppStoreValidator(opts), lines 15-34
ConstructUpdate(opts) ==
  /\ phase = "new"
  /\ LET o == Spread(DefaultOptions, opts)
         c == LoadConfiguration(o)
     IN  /\ options' = o
         /\ config' = c
         /\ regLog' = RegisterCalls(c)
         /\ rules' = LoadRules(c, o)
  /\ phase' = "ready"

\* new AppStoreValidator(opts) on its own
Construct(opts) ==
  /\ ConstructUpdate(opts)
  /\ UNCHANGED <<zipVars, engVars>>

\* validator.registerRule(rule), lines 99-101
RegisterRule(rule) ==
  /\ phase = "ready"
  /\ Len(regLog) < Len(RegisterCalls(config)) + MaxRegs
  /\ rules' = RegisterRuleInto(rules, rule)
  /\ regLog' = Append(regLog, rule)
  /\ UNCHANGED <<phase, options, config>>
  /\ UNCHANGED <<zipVars, engVars>>

\* ---- SpecRegistry: one constructor call with arbitrary small arrays ----
InitRegistry ==
  /\ phase = "new"
  /\ options = DefaultOptions
  /\ config = EmptyObject
  /\ rules = <<>>
  /\ regLog = <<>>
  /\ ZipIdle
  /\ EngineIdle
  /\ platform = "darwin"

ConstructAny ==
  /\ phase = "new"
  /\ \E nIg \in 0..MaxItems, nIn \in 0..MaxItems,
     nEx \in 0..MaxItems, nCu \in 0..MaxItems :
    /\ nIg + nIn + nEx + nCu <= MaxItems
    /\ \E hasIg \in BOOLEAN, hasIn \in BOOLEAN,
          hasEx \in BOOLEAN, hasCu \in BOOLEAN :
         /\ (nIg > 0 => hasIg) /\ (nIn > 0 => hasIn)
         /\ (nEx > 0 => hasEx) /\ (nCu > 0 => hasCu)
         /\ \E ig \in [1..nIg -> NamePool], inc \in [1..nIn -> NamePool],
               ex \in [1..nEx -> NamePool], cu \in [1..nCu -> PathPool],
               cfgPath \in ConfigPathPool :
              Construct(MakeOptions(hasIg, ig, hasIn, inc, hasEx, ex,
                                    hasCu, cu, cfgPath))

NextRegistry == ConstructAny

SpecRegistry == InitRegistry /\ [][NextRegistry]_vars

\* ---- SpecRegister: registerRule calls on a constructed validator ----
RegisterInitOptions ==
  { EmptyObject,
    [customRules |-> <<"./custom-rules/metadata-override-rule.js">>],
    [customRules |-> <<"./custom-rules/company-branding-rule.js",
                       "./custom-rules/metadata-override-rule.js">>],
    [configPath |-> Some("/cfg/ignore.config.js")],
    [ruleOptions |-> [include |-> <<"metadata", "assets">>]] }

InitRegister ==
  \E opts \in RegisterInitOptions :
    LET o == Spread(DefaultOptions, opts)
        c == LoadConfiguration(o)
    IN  /\ phase = "ready"
        /\ options = o
        /\ config = c
        /\ regLog = RegisterCalls(c)
        /\ rules = LoadRules(c, o)
        /\ ZipIdle
        /\ EngineIdle
        /\ platform = "darwin"

NextRegister == \E rule \in RegisterPool : RegisterRule(rule)

SpecRegister == InitRegister /\ [][NextRegister]_vars

(***************************************************************************)
(* SpecIPA: one parseIPA call on an arbitrary small archive                *)
(***************************************************************************)
\* the number of entries of an archive
MaxEntries == 3

\* an entry body is what plist.parse makes of it ("plist:..."), or
\* "garbage" (read but not a property list), "open-fails" (openReadStream
\* fails), "read-fails" (the stream emits 'error'), "corrupt-header" (the
\* zipfile emits 'error' instead of the entry)
EntryPool ==
  { Entry("Payload/Main.app/Info.plist", "plist:main"),
    Entry("Payload/Main.app/Info.plist", "garbage"),
    Entry("Payload/Main.app/Info.plist", "open-fails"),
    Entry("Payload/Main.app/Info.plist", "read-fails"),
    Entry("Payload/Other.app/Info.plist", "plist:other"),
    Entry("Payload/Main.app/PlugIns/Share.appex/Info.plist", "plist:nested"),
    Entry("Payload/Main.app/Frameworks/Lib.framework/Info.plist", "plist:nested"),
    Entry("Payload/Main.app/Assets.bundle/Info.plist", "plist:nested"),
    Entry("Payload/Main.app/Watch/Companion.app/Info.plist", "plist:nested"),
    Entry("Payload/Main.app/PrivacyInfo.xcprivacy", "plist:privacy"),
    Entry("Payload/Main.app/PrivacyInfo.xcprivacy", "garbage"),
    Entry("Symbols/Payload/Main.app/PrivacyInfo.xcprivacy", "plist:privacy"),
    Entry("Payload/Main.app/archived-expanded-entitlements.xcent",
          "plist:entitlements"),
    Entry("Payload/Main.app/PlugIns/Share.appex/archived-expanded-entitlements.xcent",
          "plist:entitlements"),
    Entry("Payload/Main.app/Main", "binary"),
    Entry("Payload/Main.app/Main", "corrupt-header") }

InitIPA ==
  /\ phase = "new"
  /\ options = DefaultOptions
  /\ config = EmptyObject
  /\ rules = <<>>
  /\ regLog = <<>>
  /\ \E n \in 0..MaxEntries :
       \E entries \in [1..n -> EntryPool] : archive = entries
  /\ archiveOpens \in BOOLEAN
  /\ zstate = "opening-file"
  /\ zpos = 0
  /\ ztarget = "none"
  /\ artifacts = EmptyArtifacts
  /\ promise = PendingPromise
  /\ settleCalls = 0
  /\ EngineIdle
  /\ platform = "darwin"

NextIPA == ParseIPAStep /\ UNCHANGED <<regVars, engVars>>

SpecIPA == InitIPA /\ [][NextIPA]_vars

\* the same call with the event loop delivering every event that is due:
\* the callback of yauzl.open, the 'entry', 'end' and 'error' events of the
\* zipfile and the events of an entry's read stream
SpecIPALive == SpecIPA /\ WF_vars(NextIPA)

(***************************************************************************)
(* Spec: validate calls, one after the other, on one validator instance    *)
(***************************************************************************)
\* the options the instance is constructed with
ApiOptions ==
  { EmptyObject,
    [customRules |-> <<"./custom-rules/throwing-rule.js",
                       "./custom-rules/company-branding-rule.js",
                       "./custom-rules/no-validate-rule.js">>,
     ignore |-> <<"localization", "performance">>],
    [ruleOptions |-> [include |-> <<"metadata", "info-plist-validation">>],
     output |-> "json"],
    [ruleOptions |-> [include |-> <<"permissions", "performance">>],
     output |-> "json"],
    [output |-> "junit"] }

\* the metadataPath arguments: none, or one of the paths
MetadataArgs == {None} \cup {Some(p) : p \in MetadataPaths}

Init ==
  /\ \E opts \in ApiOptions :
       LET o == Spread(DefaultOptions, opts)
           c == LoadConfiguration(o)
       IN  /\ phase = "ready"
           /\ options = o
           /\ config = c
           /\ regLog = RegisterCalls(c)
           /\ rules = LoadRules(c, o)
  /\ ZipIdle
  /\ EngineIdle
  /\ platform \in Platforms

Validate ==
  \E path \in BuildPaths, metaPath \in MetadataArgs :
    StartValidate(path, metaPath)

Next == Validate \/ ValidateStep

Spec == Init /\ [][Next]_vars

(***************************************************************************)
(* SpecRepeat: validate calls on one instance, with the first completed    *)
(* call kept, so that a later call with the same arguments can be compared *)
(* with it.  The first call of an instance is a call on a new instance.    *)
(***************************************************************************)
\* the arguments of the repeated calls
RepeatPaths ==
  {"/tmp/TestApp.app", "/tmp/Debug/Minimal.app", "/tmp/Broken.app",
   "/proj/build/TestApp.ipa", "/tmp/invalid.txt"}

RepeatMetadataArgs ==
  {None, Some("/meta/metadata.json"), Some("/meta/flat-keywords.json"),
   Some("/meta/missing.json")}

InitRepeat ==
  /\ \E opts \in ApiOptions :
       LET o == Spread(DefaultOptions, opts)
           c == LoadConfiguration(o)
       IN  /\ phase = "ready"
           /\ options = o
           /\ config = c
           /\ regLog = RegisterCalls(c)
           /\ rules = LoadRules(c, o)
  /\ ZipIdle
  /\ EngineFresh
  /\ firstRun = [followed |-> TRUE, run |-> None]
  /\ inFlight = NoCalls
  /\ platform = "darwin"

ValidateAgain ==
  \E path \in RepeatPaths, metaPath \in RepeatMetadataArgs :
    StartValidate(path, metaPath)

NextRepeat == ValidateAgain \/ ValidateStep

SpecRepeat == InitRepeat /\ [][NextRepeat]_vars

(***************************************************************************)
(* SpecOverlap: two validate calls on one instance, the second made while  *)
(* the first is suspended at an await or after it.  The fields of the      *)
(* instance (this.results, this.buildPath, this.infoPlist, this.metadata)  *)
(* are shared; the metadataPath argument, the awaited promise and the      *)
(* iterator of the rule loop are the call's own.  The packages are .app    *)
(* directories, so that the only suspensions are the awaits of validate()  *)
(* and runValidationRules().                                               *)
(***************************************************************************)
OverlapPaths ==
  {"/tmp/TestApp.app", "/tmp/Debug/Minimal.app", "/tmp/Empty.app",
   "/non/existent/path"}

OverlapMetadataArgs ==
  {None, Some("/meta/metadata.json"), Some("/meta/missing.json")}

\* the instance runs two rules, one of which reads the metadata
OverlapOptions ==
  [ruleOptions |-> [include |-> <<"metadata", "info-plist-validation">>]]

InitOverlap ==
  /\ LET o == Spread(DefaultOptions, OverlapOptions)
         c == LoadConfiguration(o)
     IN  /\ phase = "ready"
         /\ options = o
         /\ config = c
         /\ regLog = RegisterCalls(c)
         /\ rules = LoadRules(c, o)
  /\ ZipIdle
  /\ EngineIdle
  /\ platform = "darwin"

\* what no step of an overlapping call changes
OverlapFrame ==
  UNCHANGED <<regVars, zipVars, pc, metadataPath, ruleIdx, outcome, runs, log,
              firstRun, platform, exitCode>>

InProgress(c) == inFlight[c].pc \notin {"idle", "done"}

\* validate(path, metaPath), lines 130-142 and 184-191, as call c: up to
\* the rejection by validateInputs or the await of parseAppBundle
OverlapStart(c, path, metaPath) ==
  /\ phase = "ready"
  /\ inFlight[c].pc = "idle"
  /\ c = "second" => inFlight["first"].pc # "idle"
  /\ buildPath' = Some(path)
  /\ results' = <<>>
  /\ LET started ==
           IF ValidateInputs(path) # None
           THEN [inFlight[c] EXCEPT
                   !.pc = "done", !.metadataPath = metaPath,
                   !.outcome = Some(Rejection(ValidateInputs(path)[1]))]
           ELSE [inFlight[c] EXCEPT
                   !.pc = "parse", !.metadataPath = metaPath,
                   !.parsed = Some(ParseAppBundle(path))]
     IN  inFlight' =
           [d \in Calls |->
              IF d = c
              THEN [started EXCEPT
                      !.alone = \A e \in Calls \ {c} : ~InProgress(e)]
              ELSE IF InProgress(d) THEN [inFlight[d] EXCEPT !.alone = FALSE]
              ELSE inFlight[d]]
  /\ UNCHANGED <<infoPlist, metadata>>
  /\ OverlapFrame

\* lines 187-197 and 145-164 of call c, after parseAppBundle settled
OverlapAfterParse(c) ==
  /\ inFlight[c].pc = "parse"
  /\ LET r == inFlight[c].parsed[1]
     IN  IF ~r.threw
         THEN /\ infoPlist' = r.value.infoPlist
              /\ inFlight' =
                   [inFlight EXCEPT
                      ![c].pc = IF inFlight[c].metadataPath # None
                                THEN "metadata" ELSE "rules",
                      ![c].ruleIdx = 1]
              /\ UNCHANGED results
         ELSE LET error == Error("Error", "Failed to parse build artifacts: "
                                            \o r.value)
                  res == Append(results, FatalFinding(error))
              IN  /\ results' = res
                  /\ inFlight' =
                       [inFlight EXCEPT
                          ![c].pc = "done",
                          ![c].own = Append(@, FatalFinding(error)),
                          ![c].outcome =
                            Some(Report(GenerateReport(res, buildPath[1],
                                                       rules, options)))]
                  /\ UNCHANGED infoPlist
  /\ UNCHANGED <<buildPath, metadata>>
  /\ OverlapFrame

\* loadMetadata(metadataPath), lines 199-220, of call c
OverlapLoadMetadata(c) ==
  /\ inFlight[c].pc = "metadata"
  /\ LET path == inFlight[c].metadataPath[1]
         file == MetaFS(path)
     IN  IF file.exists /\ file.parses
         THEN /\ metadata' = file.value
              /\ inFlight' = [inFlight EXCEPT ![c].pc = "rules"]
              /\ UNCHANGED results
         ELSE LET error == Error("Error", "Metadata file does not exist: "
                                            \o path)
                  f == MetadataFailureFinding(error, path)
              IN  /\ results' = Append(results, f)
                  /\ inFlight' = [inFlight EXCEPT ![c].pc = "rules",
                                                 ![c].own = Append(@, f)]
                  /\ UNCHANGED metadata
  /\ UNCHANGED <<buildPath, infoPlist>>
  /\ OverlapFrame

\* runValidationRules, lines 225-243, of call c: one turn of the loop
OverlapRunRule(c) ==
  /\ inFlight[c].pc = "rules"
  /\ inFlight[c].ruleIdx <= Len(rules)
  /\ LET rule == rules[inFlight[c].ruleIdx]
         r == RuleValidate(rule, infoPlist, metadata, buildPath[1], platform)
         added == IF r.threw
                  THEN << RuleFailureFinding(rule.name, r.value) >>
                  ELSE r.value
     IN  /\ results' = results \o added
         /\ inFlight' = [inFlight EXCEPT ![c].ruleIdx = @ + 1,
                                        ![c].own = @ \o added]
  /\ UNCHANGED <<buildPath, infoPlist, metadata>>
  /\ OverlapFrame

\* line 152 of call c, after the loop
OverlapFinish(c) ==
  /\ inFlight[c].pc = "rules"
  /\ inFlight[c].ruleIdx > Len(rules)
  /\ inFlight' =
       [inFlight EXCEPT
          ![c].pc = "done",
          ![c].outcome = Some(Report(GenerateReport(results, buildPath[1],
                                                    rules, options)))]
  /\ UNCHANGED <<results, buildPath, infoPlist, metadata>>
  /\ OverlapFrame

OverlapValidate ==
  \E c \in Calls, path \in OverlapPaths, metaPath \in OverlapMetadataArgs :
    OverlapStart(c, path, metaPath)

OverlapResume ==
  \E c \in Calls :
    \/ OverlapAfterParse(c)
    \/ OverlapLoadMetadata(c)
    \/ OverlapRunRule(c)
    \/ OverlapFinish(c)

NextOverlap == OverlapValidate \/ OverlapResume

SpecOverlap == InitOverlap /\ [][NextOverlap]_vars

(***************************************************************************)
(* The CLI, src/src/cli.js                                                 *)
(***************************************************************************)
\* String.prototype.toUpperCase, for the letters a-z
UpperChar(c) ==
  IF c \in LowerLetters
  THEN LET i == CHOOSE j \in 1..Len(LowerAlphabet) : CharAt(LowerAlphabet, j) = c
       IN  CharAt(UpperAlphabet, i)
  ELSE c

RECURSIVE ToUpperCase(_)
ToUpperCase(s) ==
  IF s = "" THEN ""
  ELSE ToUpperCase(SubSeq(s, 1, Len(s) - 1)) \o UpperChar(CharAt(s, Len(s)))

\* String.prototype.trim, for blanks
RECURSIVE Trim(_)
Trim(s) ==
  IF s = "" THEN ""
  ELSE IF CharAt(s, 1) = " " THEN Trim(SubSeq(s, 2, Len(s)))
  ELSE IF CharAt(s, Len(s)) = " " THEN Trim(SubSeq(s, 1, Len(s) - 1))
  ELSE s

\* s.split(',')
RECURSIVE SplitComma(_)
SplitComma(s) ==
  IF ~Includes(s, ",") THEN <<s>>
  ELSE LET i == CHOOSE j \in 1..Len(s) :
                  /\ CharAt(s, j) = ","
                  /\ \A k \in 1..(j - 1) : CharAt(s, k) # ","
       IN  <<SubSeq(s, 1, i - 1)>> \o SplitComma(SubSeq(s, i + 1, Len(s)))

\* s.split(',').map((r) => r.trim()), lines 138 and 141
SplitNames(s) ==
  LET parts == SplitComma(s) IN [i \in 1..Len(parts) |-> Trim(parts[i])]

\* getSeverityLevel, lines 323-332
SeverityLevels ==
  [CRITICAL |-> 4, HIGH |-> 3, MEDIUM |-> 2, LOW |-> 1, INFO |-> 0]

\* a table that ranks Info with Low
SeverityLevelOfInfoAsLow(severity) ==
  IF ToUpperCase(severity) = "INFO" THEN 1
  ELSE IF ToUpperCase(severity) \in DOMAIN SeverityLevels
       THEN SeverityLevels[ToUpperCase(severity)]
       ELSE 0

GetSeverityLevel(severity) ==
  IF ToUpperCase(severity) \in DOMAIN SeverityLevels
  THEN SeverityLevels[ToUpperCase(severity)]
  ELSE 0

\* lines 170-173
HasFailures(res, failOn) ==
  \E i \in 1..Len(res) :
    GetSeverityLevel(res[i].severity) >= GetSeverityLevel(failOn)

\* the choices of --fail-on, line 67
FailOnChoices == {"critical", "high", "medium", "low"}

\* the values of --rules and --ignore the command lines of the model carry
RuleListArgs ==
  { [rules |-> None, ignore |-> None],
    [rules |-> Some("metadata, info-plist-validation"), ignore |-> None],
    [rules |-> None, ignore |-> Some("code-signing,assets,privacy-compliance")] }

ConfigArgs == {None, Some("/cfg/custom.config.js")}

\* lines 136-150: the options runValidation constructs the validator with
CliOptions(argv) ==
  LET ruleOptions ==
        Spread(IF argv.rules # None
               THEN [include |-> SplitNames(argv.rules[1])] ELSE EmptyObject,
               IF argv.ignore # None
               THEN [exclude |-> SplitNames(argv.ignore[1])] ELSE EmptyObject)
  IN  [verbose |-> FALSE, output |-> argv.output, configPath |-> argv.config,
       ruleOptions |-> ruleOptions, failOn |-> argv.failOn]

\* runValidation(argv), lines 119-152: the validator is constructed and
\* validate is called
CliRun(argv) ==
  /\ phase = "new"
  /\ ConstructUpdate(CliOptions(argv))
  /\ ValidateCall(argv.buildPath, argv.metadata)

CliRunAny ==
  /\ phase = "new"
  /\ \E path \in BuildPaths, metaPath \in MetadataArgs,
        failOn \in FailOnChoices, lists \in RuleListArgs,
        cfg \in ConfigArgs :
       CliRun([buildPath |-> path, metadata |-> metaPath, failOn |-> failOn,
               rules |-> lists.rules, ignore |-> lists.ignore,
               config |-> cfg, output |-> "console"])

\* lines 169-194: the exit once validate has returned or thrown;
\* options.failOn is argv.failOn
CliExit ==
  /\ pc = "done"
  /\ exitCode' = IF outcome[1].kind = "rejected" THEN Some(1)
                 ELSE IF HasFailures(results, options.failOn) THEN Some(1)
                 ELSE Some(0)
  /\ pc' = "exited"
  /\ UNCHANGED <<results, buildPath, infoPlist, metadata, metadataPath,
                 ruleIdx, outcome, runs, log, firstRun, inFlight, platform>>
  /\ UNCHANGED <<regVars, zipVars>>

InitCli ==
  /\ phase = "new"
  /\ options = DefaultOptions
  /\ config = EmptyObject
  /\ rules = <<>>
  /\ regLog = <<>>
  /\ ZipIdle
  /\ EngineIdle
  /\ platform \in Platforms

NextCli == CliRunAny \/ ValidateStep \/ CliExit

SpecCli == InitCli /\ [][NextCli]_vars

(***************************************************************************)
(* SpecRule: one rule.validate(validator) call on a validator whose        *)
(* manifest, metadata document and build path are given                    *)
(***************************************************************************)
\* the string of n copies of the character c
RECURSIVE Repeat(_, _)
Repeat(c, n) ==
  IF n = 0 THEN ""
  ELSE LET half == Repeat(c, n \div 2)
       IN  half \o half \o (IF n % 2 = 1 THEN c ELSE "")

\* the object without the keys of a set
Without(obj, keys) == [k \in DOMAIN obj \ keys |-> obj[k]]

\* bundle identifiers: well formed ones, ones with white space or a
\* character outside the class, ones with consecutive dots, and ones at
\* and above the length limit
IdentifierPool ==
  {"com.example.testapp", "a-b.C9", "com.example test", "com.example\ttab",
   "com.example.app\n", "com_example.app", "com.example/app", "com..example",
   "com..exa mple", Repeat("a", BUNDLE_ID_MAX_LENGTH),
   Repeat("a", BUNDLE_ID_MAX_LENGTH + 1)}

\* purpose strings: short, with a generic phrase of the rule, with a
\* leftover placeholder token, several of these at once, and none of them
PurposeStringPool ==
  {"Short",
   "Camera access needed",
   "We need this to access camera when you scan a receipt",
   "Required for Functionality",
   "TODO: say why the camera is used by the scanner",
   "CHANGE ME before the release of this application",
   "TODO to access camera",
   "Scans the receipts that you add to an expense report"}

\* the location purpose strings of a manifest
LocationKeysPool ==
  {"NSLocationAlwaysUsageDescription" :>
     "Records the route of a run while the screen is locked",
   ("NSLocationAlwaysUsageDescription" :>
      "Records the route of a run while the screen is locked")
     @@ ("NSLocationWhenInUseUsageDescription" :>
           "Shows the running tracks that are close to you"),
   ("NSLocationAlwaysAndWhenInUseUsageDescription" :>
      "Records the route of a run while the screen is locked")
     @@ ("NSLocationWhenInUseUsageDescription" :>
           "Shows the running tracks that are close to you"),
   "NSLocationWhenInUseUsageDescription" :>
     "Shows the running tracks that are close to you"}

\* the manifests a rule is applied to: none, the test manifest without any
\* set of its required keys, with a required key that is false, with each
\* identifier, and with other permission keys than the camera's
ManifestPool ==
  {None}
    \cup {Some(Without(MainManifest, S)) : S \in SUBSET SeqToSet(REQUIRED_PLIST_KEYS)}
    \cup {Some([MainManifest EXCEPT !.LSRequiresIPhoneOS = FALSE])}
    \cup {Some([MainManifest EXCEPT !.CFBundleIdentifier = id]) :
            id \in IdentifierPool}
    \cup {Some(Without(MainManifest, {"NSCameraUsageDescription"})),
          Some([MainManifest EXCEPT !.NSCameraUsageDescription = ""]),
          Some(Without(MainManifest, {"NSCameraUsageDescription"})
                 @@ ("NSMicrophoneUsageDescription" :>
                       "Records voice notes that you attach to a photo")),
          Some(Without(MainManifest, {"NSCameraUsageDescription"})
                 @@ ("NSFaceIDUsageDescription" :>
                       "Unlocks the private album with Face ID"))}
    \cup {Some([MainManifest EXCEPT !.NSCameraUsageDescription = d]) :
            d \in PurposeStringPool}
    \cup {Some(Without(MainManifest, {"NSCameraUsageDescription"}) @@ l) :
            l \in LocationKeysPool}

\* the lengths of the app names, descriptions and first keywords of the
\* metadata documents: at, below and above the limits of
\* METADATA_CONSTRAINTS; 0 stands for a document without the key
AppNameLengths == {0, APP_NAME_MAX_LENGTH, APP_NAME_MAX_LENGTH + 1}

DescriptionLengths == {DESCRIPTION_MIN_LENGTH - 1, DESCRIPTION_MIN_LENGTH}

\* the keywords are <<k, "x">>, joined to Len(k) + 2 characters
KeywordLengths == {KEYWORDS_MAX_LENGTH - 2, KEYWORDS_MAX_LENGTH - 1}

\* the metadata documents a rule is applied to: none, {}, documents whose
\* description is '' or whose keywords are [] or a string, and every
\* combination of the lengths
MetadataPool ==
  {None, Some(EmptyObject),
   Some([appName |-> "Notes", description |-> ""]),
   Some([appName |-> "Notes",
         keywords |-> [isArray |-> TRUE, value |-> <<>>]]),
   Some(FlatKeywordsMetadata)}
    \cup {Some((IF a = 0 THEN EmptyObject ELSE [appName |-> Repeat("n", a)])
                 @@ [description |-> Repeat("d", d),
                     keywords |-> [isArray |-> TRUE,
                                   value |-> <<Repeat("k", k), "x">>]]) :
            a \in AppNameLengths, d \in DescriptionLengths,
            k \in KeywordLengths}

\* the build paths: a bundle without and one with a privacy manifest, and
\* an archive whose only privacy manifest is a framework's
RulePaths == {"/tmp/TestApp.app", "/tmp/Debug/Minimal.app",
              "/proj/build/TestApp.ipa"}

InitRule ==
  /\ LET o == DefaultOptions
         c == LoadConfiguration(o)
     IN  /\ phase = "ready"
         /\ options = o
         /\ config = c
         /\ regLog = RegisterCalls(c)
         /\ rules = LoadRules(c, o)
  /\ ZipIdle
  /\ results = <<>>
  /\ buildPath \in {Some(p) : p \in RulePaths}
  /\ infoPlist \in ManifestPool
  /\ metadata \in MetadataPool
  /\ pc = "idle"
  /\ metadataPath = None
  /\ ruleIdx = 0
  /\ outcome = None
  /\ runs = 0
  /\ log = <<>>
  /\ firstRun = [followed |-> FALSE, run |-> None]
  /\ inFlight = NoCalls
  /\ exitCode = None
  /\ platform = "darwin"

\* await rule.validate(this), src/src/validator.js:229, for one of the
\* registered rules: what it returned, or that it threw
ApplyRule ==
  /\ pc = "idle"
  /\ \E i \in 1..Len(rules) :
       LET r == RuleValidate(rules[i], infoPlist, metadata, buildPath[1],
                             platform)
       IN  /\ results' = IF r.threw THEN <<>> ELSE r.value
           /\ outcome' = Some([kind |-> IF r.threw THEN "thrown" ELSE "returned"])
           /\ ruleIdx' = i
           /\ log' = << Stage("rule", rules[i].name) >>
  /\ pc' = "applied"
  /\ UNCHANGED <<buildPath, infoPlist, metadata, metadataPath, runs,
                 firstRun, inFlight, platform, exitCode>>
  /\ UNCHANGED <<regVars, zipVars>>

NextRule == ApplyRule

SpecRule == InitRule /\ [][NextRule]_vars

(***************************************************************************)
(* Properties of validate()                                                *)
(***************************************************************************)
\* the validate call has given its caller a report or a rejection
Completed == pc \in {"done", "exited"}

Entered(op) == \E i \in 1..Len(log) : log[i].op = op

\* the names of the rules the call evaluated, in order
RulesEntered ==
  LET sel == SelectSeq(log, LAMBDA e : e.op = "rule")
  IN  [i \in 1..Len(sel) |-> sel[i].name]

\* the package path does not exist or has the wrong shape
InvalidInput(path) ==
  \/ BuildFS(path).kind = "missing"
  \/ ~ \/ BuildFS(path).kind = "dir" /\ EndsWith(path, ".app")
       \/ BuildFS(path).kind = "file" /\ EndsWith(path, ".ipa")

\* the call got as far as extraction, and extraction failed
ExtractionFailed ==
  /\ Completed
  /\ Entered("parseBuildArtifacts")
  /\ promise.state = "rejected"

\* the report is well formed: it carries the findings of the run, their
\* counts and the package path
WellFormedReport(report) ==
  /\ report.format \in {"console", "json", "junit"}
  /\ report.results = results
  /\ report.summary.total = Len(results)
  /\ report.summary.total =
       report.summary.critical + report.summary.high + report.summary.medium
         + report.summary.low + report.summary.info
  /\ report.summary.buildPath = buildPath[1]

\* C1: when extraction fails (manifest missing, manifest unparseable,
\* archive unreadable), no rule is evaluated, loadMetadata is not entered,
\* and the caller gets a report whose findings are exactly one Critical
\* finding whose message carries the error's description and whose details
\* are the error's stack
C1_ExtractionFailureReport ==
  ExtractionFailed =>
    /\ RulesEntered = <<>>
    /\ ~Entered("loadMetadata")
    /\ outcome # None
    /\ outcome[1].kind = "report"
    /\ WellFormedReport(outcome[1].report)
    /\ Len(outcome[1].report.results) = 1
    /\ LET f == outcome[1].report.results[1]
           description == "Failed to parse build artifacts: " \o promise.value[1]
       IN  /\ f.severity = "CRITICAL"
           /\ f.rule = "SYSTEM"
           /\ EndsWith(f.message, description)
           /\ f.details # Null
           /\ Includes(f.details, description)
           /\ Includes(f.details, "\n    at ")

\* an archive that cannot be opened, a metadata path and active rules
C1_Witness ==
  /\ ExtractionFailed
  /\ buildPath = Some("/tmp/Corrupt.ipa")
  /\ metadataPath = Some("/meta/metadata.json")
  /\ Len(rules) > 0
  /\ Len(results) = 1

\* C2 as stated: every validate call gives its caller a report
C2_NeverRaises == Completed => outcome[1].kind = "report"

\* C2 amended: validate rejects exactly when the package path does not exist
\* or has the wrong shape; every other call, whatever fails in extraction,
\* metadata loading or a rule, gives its caller a well-formed report
C2_RaisesOnlyOnInvalidInput ==
  Completed =>
    /\ outcome # None
    /\ outcome[1].kind = "rejected" <=> InvalidInput(buildPath[1])
    /\ outcome[1].kind = "report" <=> ~InvalidInput(buildPath[1])
    /\ outcome[1].kind = "report" => WellFormedReport(outcome[1].report)

\* a call in which metadata loading failed and a rule threw, and that
\* returned a report
C2_Witness ==
  /\ Completed
  /\ outcome[1].kind = "report"
  /\ \E i \in 1..Len(results) : results[i].rule = "METADATA_LOADING"
  /\ \E i \in 1..Len(results) :
       StartsWith(results[i].message, "Rule execution failed")

\* C3: a build path that does not exist is rejected with 'Build path does
\* not exist', an existing path of the wrong shape with 'Build path must be
\* either a .app directory or .ipa file', and in both cases nothing of
\* extraction, metadata loading or rule execution was entered
C3_InvalidInputRejected ==
  (Completed /\ InvalidInput(buildPath[1])) =>
    /\ outcome # None
    /\ outcome[1].kind = "rejected"
    /\ IF BuildFS(buildPath[1]).kind = "missing"
       THEN StartsWith(outcome[1].error.message, "Build path does not exist")
       ELSE outcome[1].error.message =
              "Build path must be either a .app directory or .ipa file"
    /\ ~Entered("parseBuildArtifacts")
    /\ ~Entered("loadMetadata")
    /\ RulesEntered = <<>>
    /\ results = <<>>

\* a second call on an instance, with a directory named like an archive
C3_Witness ==
  /\ Completed
  /\ runs = 2
  /\ buildPath = Some("/tmp/Dir.ipa")
  /\ metadataPath # None
  /\ outcome[1].kind = "rejected"

\* what rule i of the active rules returns or throws in this call
Evaluation(i) ==
  RuleValidate(rules[i], infoPlist, metadata, buildPath[1], platform)

\* how many findings rule i adds to the run
Share(i) == IF Evaluation(i).threw THEN 1 ELSE Len(Evaluation(i).value)

RECURSIVE SharesBefore(_)
SharesBefore(i) == IF i <= 1 THEN 0 ELSE SharesBefore(i - 1) + Share(i - 1)

\* the findings loadMetadata added before the first rule
MetadataShare ==
  IF results # <<>> /\ results[1].rule = "METADATA_LOADING" THEN 1 ELSE 0

\* the findings of rule i in this.results
Segment(i) ==
  SubSeq(results, MetadataShare + SharesBefore(i) + 1,
         MetadataShare + SharesBefore(i) + Share(i))

\* the call ran the rules to the end and returned
RulesCompleted ==
  /\ Completed
  /\ outcome # None
  /\ outcome[1].kind = "report"
  /\ promise.state = "resolved"

\* C4: in a run that reaches the rules, every active rule is evaluated
\* exactly once, in order; a rule that throws adds exactly one finding, of
\* severity Medium and under the rule's name; every other rule's findings
\* are in the result as the rule returned them; and the run ends with a
\* report
C4_RuleFailureIsolated ==
  /\ (pc = "rules" /\ ruleIdx > Len(rules)) => RulesEntered = MapKeys(rules)
  /\ (Completed /\ Entered("rule")) => RulesCompleted
  /\ RulesCompleted =>
       /\ RulesEntered = MapKeys(rules)
       /\ Len(results) = MetadataShare + SharesBefore(Len(rules) + 1)
       /\ outcome[1].report.results = results
       /\ \A i \in 1..Len(rules) :
            IF Evaluation(i).threw
            THEN /\ Len(Segment(i)) = 1
                 /\ Segment(i)[1].rule = rules[i].name
                 /\ Segment(i)[1].severity = "MEDIUM"
            ELSE Segment(i) = Evaluation(i).value

\* a rule threw, and a rule before it and a rule after it have findings
C4_Witness ==
  /\ RulesCompleted
  /\ \E i, j, k \in 1..Len(rules) :
       /\ i < j /\ j < k
       /\ Evaluation(j).threw
       /\ ~Evaluation(i).threw /\ Share(i) > 0
       /\ ~Evaluation(k).threw /\ Share(k) > 0

\* the metadata path of this call names a file that is missing or is not
\* valid JSON, and loadMetadata has run
MetadataLoadFailed ==
  /\ Entered("loadMetadata")
  /\ metadataPath # None
  /\ ~(MetaFS(metadataPath[1]).exists /\ MetaFS(metadataPath[1]).parses)

\* C5: when the metadata file is missing or is not valid JSON, loadMetadata
\* records exactly one Medium finding, the run goes on through every active
\* rule, and the rules see no metadata (getMetadata() returns null)
C5_FailedLoadLeavesNoMetadata ==
  MetadataLoadFailed =>
    /\ Len(SelectSeq(results, LAMBDA r : r.rule = "METADATA_LOADING")) = 1
    /\ results[1].rule = "METADATA_LOADING" /\ results[1].severity = "MEDIUM"
    /\ Completed => RulesEntered = MapKeys(rules)
    /\ metadata = None

\* the parts of C5 that do not depend on earlier runs of the instance
C5_FailedLoadIsOneMediumFinding ==
  MetadataLoadFailed =>
    /\ Len(SelectSeq(results, LAMBDA r : r.rule = "METADATA_LOADING")) = 1
    /\ results[1].rule = "METADATA_LOADING" /\ results[1].severity = "MEDIUM"
    /\ Completed => RulesEntered = MapKeys(rules)
    /\ runs = 1 => metadata = None

(***************************************************************************)
(* Properties of the CLI                                                   *)
(***************************************************************************)
\* the order Critical > High > Medium > Low > Info
Rank(severity) ==
  CASE severity \in {"CRITICAL", "critical"} -> 5
    [] severity \in {"HIGH", "high"} -> 4
    [] severity \in {"MEDIUM", "medium"} -> 3
    [] severity \in {"LOW", "low"} -> 2
    [] OTHER -> 1

\* some finding of the run is at or above the fail threshold
FindingAtOrAbove(threshold) ==
  \E i \in 1..Len(results) : Rank(results[i].severity) >= Rank(threshold)

ActiveNames == SeqToSet(MapKeys(rules))

RegisteredNames == {regLog[i].name : i \in 1..Len(regLog)}

IncludeGiven == Has(options.ruleOptions, "include")

ExcludeGiven == Has(options.ruleOptions, "exclude")

IncludeSet == IF IncludeGiven THEN SeqToSet(options.ruleOptions.include) ELSE {}

ExcludeSet == IF ExcludeGiven THEN SeqToSet(options.ruleOptions.exclude) ELSE {}

IgnoreSet == SeqToSet(config.ignore)

\* C7: after the constructor's rule filtering the active names are the
\* registered names, minus the ignore set, intersected with the include set
\* when one is given, minus the exclude set.
C7_ActiveRuleSet ==
  phase = "ready" =>
    ActiveNames =
      (IF IncludeGiven
       THEN (RegisteredNames \ IgnoreSet) \cap IncludeSet
       ELSE RegisteredNames \ IgnoreSet) \ ExcludeSet

\* a filtering with a registered name both included and excluded and an
\* included name that nothing registered
C7_Witness ==
  /\ phase = "ready"
  /\ IncludeGiven /\ ExcludeGiven
  /\ (IncludeSet \cap ExcludeSet \cap RegisteredNames) # {}
  /\ (IncludeSet \ RegisteredNames) # {}
  /\ ActiveNames # RegisteredNames

\* the rule most recently handed to registerRule under the name n
LastRegistered(n) ==
  regLog[CHOOSE i \in 1..Len(regLog) :
           /\ regLog[i].name = n
           /\ \A j \in (i + 1)..Len(regLog) : regLog[j].name # n]

\* C8: the registry holds at most one rule per name, the rule held under a
\* name is the one most recently registered under it, and a name registered
\* after construction is held.
C8_LastRegistrationWins ==
  /\ \A i, j \in 1..Len(rules) : rules[i].name = rules[j].name => i = j
  /\ \A i \in 1..Len(rules) : rules[i] = LastRegistered(rules[i].name)
  /\ \A i \in (Len(RegisterCalls(config)) + 1)..Len(regLog) :
       MapHas(rules, regLog[i].name)

\* an externally loaded rule named like a built-in has replaced the built-in,
\* and a later registerRule call has replaced a rule registered before it
C8_Witness ==
  /\ MapHas(rules, "metadata")
  /\ MapGet(rules, "metadata").cls = "./custom-rules/metadata-override-rule.js"
  /\ \E i \in 1..Len(RegisterCalls(config)) :
       regLog[i] = [name |-> "metadata",
                    cls |-> "./custom-rules/metadata-override-rule.js"]
  /\ MapHas(rules, "COMPANY_BRANDING")
  /\ MapGet(rules, "COMPANY_BRANDING").cls = "InlineBrandingRule"
  /\ \E i \in 1..Len(regLog) :
       regLog[i] = [name |-> "COMPANY_BRANDING",
                    cls |-> "./custom-rules/company-branding-rule.js"]

NoFilterGiven == IgnoreSet = {} /\ ~IncludeGiven /\ ~ExcludeGiven

\* C9: a custom rule whose module cannot be loaded or does not have the
\* required shape is not registered, while the built-in rules and the
\* well-shaped custom rules are.
C9_BadModuleNotRegistered ==
  (phase = "ready" /\ NoFilterGiven) =>
    /\ \A i \in 1..Len(config.customRules) :
         ~WellShaped(config.customRules[i]) =>
           ~\E k \in 1..Len(rules) : rules[k].cls = config.customRules[i]
    /\ \A b \in BuiltInNames : MapHas(rules, b)
    /\ \A i \in 1..Len(config.customRules) :
         WellShaped(config.customRules[i]) =>
           \E k \in 1..Len(rules) : rules[k].cls = config.customRules[i]

(***************************************************************************)
(* Properties of parseIPA                                                  *)
(***************************************************************************)
\* the components of a path, split at "/"
RECURSIVE Components(_)
Components(s) ==
  IF ~Includes(s, "/") THEN <<s>>
  ELSE LET i == CHOOSE k \in 1..Len(s) :
                  /\ SubSeq(s, k, k) = "/"
                  /\ \A j \in 1..(k - 1) : SubSeq(s, j, j) # "/"
       IN  <<SubSeq(s, 1, i - 1)>> \o Components(SubSeq(s, i + 1, Len(s)))

\* the entry is the manifest at the root of a top-level component:
\* Payload/<Name>.app/Info.plist
IsPrimaryManifestEntry(e) ==
  LET c == Components(e.fileName)
  IN  /\ Len(c) = 3
      /\ c[1] = "Payload"
      /\ Len(c[2]) > Len(".app") /\ EndsWith(c[2], ".app")
      /\ c[3] = "Info.plist"

\* the entry is an Info.plist of a component nested in the top-level one
IsNestedManifestEntry(e) ==
  LET c == Components(e.fileName)
  IN  Len(c) > 3 /\ c[1] = "Payload" /\ c[Len(c)] = "Info.plist"

\* the manifest m was read from a primary entry emitted so far
FromPrimaryEntry(m, bundle) ==
  \E k \in 1..zpos :
    /\ IsPrimaryManifestEntry(archive[k])
    /\ ParsePlist(archive[k].body) = m
    /\ bundle = Some(Dirname(archive[k].fileName))

\* C10: the manifest parseIPA holds, and the one it resolves with, is that
\* of an entry Payload/<Name>.app/Info.plist; an archive without such an
\* entry is never resolved, and is rejected once the scan has ended.
C10_OnlyPrimaryManifest ==
  /\ artifacts.infoPlist # None =>
       FromPrimaryEntry(artifacts.infoPlist, artifacts.appBundle)
  /\ promise.state = "resolved" =>
       /\ promise.value[1].infoPlist # None
       /\ FromPrimaryEntry(promise.value[1].infoPlist,
                           promise.value[1].appBundle)
  /\ (~\E k \in 1..Len(archive) : IsPrimaryManifestEntry(archive[k])) =>
       /\ promise.state # "resolved"
       /\ zstate = "closed" => promise.state = "rejected"

\* resolved with the main manifest from an archive that holds a nested
\* manifest before the primary entry and another after it
C10_Witness ==
  /\ promise.state = "resolved"
  /\ promise.value[1].infoPlist = Some(MainManifest)
  /\ Len(archive) = 3
  /\ IsNestedManifestEntry(archive[1])
  /\ IsPrimaryManifestEntry(archive[2])
  /\ IsNestedManifestEntry(archive[3])

(***************************************************************************)
(* Properties of the rules                                                 *)
(***************************************************************************)
\* the rule of that name was applied, and returned its findings
Applied(name) ==
  /\ pc = "applied"
  /\ log[1].name = name
  /\ outcome[1].kind = "returned"

\* some finding has the severity and a message that holds the text
SomeFinding(severity, text) ==
  \E i \in 1..Len(results) :
    /\ results[i].severity = severity
    /\ Includes(results[i].message, text)

\* C11: applied to a manifest, the info-plist-validation rule returns, and
\* for every required key the manifest does not have its findings hold a
\* Critical finding whose message names the key; applied to no manifest
\* (null), it returns exactly one finding, which is Critical.
C11_MissingRequiredKeys ==
  (pc = "applied" /\ log[1].name = IP) =>
    /\ outcome[1].kind = "returned"
    /\ IF infoPlist = None
       THEN Len(results) = 1 /\ results[1].severity = "CRITICAL"
       ELSE \A k \in SeqToSet(REQUIRED_PLIST_KEYS) :
              ~Has(infoPlist[1], k) => SomeFinding("CRITICAL", k)

\* the rule was applied to a manifest that lacks two of the required keys
\* and has the others
C11_Witness ==
  /\ Applied(IP)
  /\ infoPlist # None
  /\ ~Has(infoPlist[1], "CFBundleName")
  /\ ~Has(infoPlist[1], "LSRequiresIPhoneOS")
  /\ Has(infoPlist[1], "CFBundleIdentifier")
  /\ CountOf(results, "CRITICAL") = 2

\* the characters a bundle identifier may be made of
BundleIdAlphabet == Letters \cup Digits \cup {".", "-"}

\* the identifier has a character outside the class (white space included)
HasForeignChar(id) ==
  \E i \in 1..Len(id) : CharAt(id, i) \notin BundleIdAlphabet

\* C12: applied to a manifest whose bundle identifier has white space or
\* any character other than a letter, a digit, a dot or a hyphen, the
\* info-plist-validation rule returns a High finding with the message
\* 'Invalid bundle identifier format'; for an identifier made of those
\* characters only, of at most 255 characters and without '..', no finding
\* has that message.
C12_BundleIdentifierFormat ==
  (Applied(IP) /\ infoPlist # None /\ Truthy(infoPlist[1], "CFBundleIdentifier")) =>
    LET id == infoPlist[1].CFBundleIdentifier
        flagged(sev) ==
          \E i \in 1..Len(results) :
            /\ results[i].message = "Invalid bundle identifier format"
            /\ results[i].severity \in sev
    IN  /\ HasForeignChar(id) => flagged({"HIGH"})
        /\ (/\ ~HasForeignChar(id)
            /\ Len(id) <= BUNDLE_ID_MAX_LENGTH
            /\ ~Includes(id, "..")) => ~flagged(Severities)

\* the rule was applied to an identifier with a tab in it, and reported it
C12_Witness ==
  /\ Applied(IP)
  /\ infoPlist # None
  /\ Truthy(infoPlist[1], "CFBundleIdentifier")
  /\ Includes(infoPlist[1].CFBundleIdentifier, "\t")
  /\ SomeFinding("HIGH", "Invalid bundle identifier format")

\* the package at the path has a privacy-declaration file at the root of
\* its primary component
HasRootPrivacyManifest(path) ==
  IF EndsWith(path, ".ipa")
  THEN \E i \in 1..Len(BuildFS(path).entries) :
         MatchesAtAppRoot(BuildFS(path).entries[i].fileName,
                          "PrivacyInfo.xcprivacy")
  ELSE "PrivacyInfo.xcprivacy" \in DOMAIN BuildFS(path).files

\* the findings about the missing privacy manifest
AboutMissingPrivacyManifest ==
  SelectSeq(results, LAMBDA r : /\ r.rule = PC
                                /\ Includes(r.message, "Privacy manifest")
                                /\ Includes(r.message, "not found"))

\* C13 (first part): applied to a manifest of a package that has no
\* privacy-declaration file at the root of its primary component, the
\* privacy-compliance rule returns exactly one finding about the missing
\* privacy manifest; it is High when the manifest contains at least one of
\* the privacy-sensitive permission keys (PRIVACY_PERMISSION_KEYS) with a
\* description, and Info when it contains none of them.
C13_MissingPrivacyManifestSeverity ==
  (Applied(PC) /\ infoPlist # None /\ ~HasRootPrivacyManifest(buildPath[1])) =>
    LET about == AboutMissingPrivacyManifest
        sensitive == \E k \in SeqToSet(PRIVACY_PERMISSION_KEYS) :
                       Truthy(infoPlist[1], k)
    IN  /\ Len(about) = 1
        /\ about[1].severity = IF sensitive THEN "HIGH" ELSE "INFO"

\* what the rule does: the one finding is High exactly when one of the six
\* keys of determineIfPrivacyManifestRequired has a non-empty value
C13_SeverityBySixKeys ==
  (Applied(PC) /\ infoPlist # None /\ ~HasRootPrivacyManifest(buildPath[1])) =>
    LET about == AboutMissingPrivacyManifest
        required == \E k \in {"NSCameraUsageDescription",
                              "NSLocationWhenInUseUsageDescription",
                              "NSLocationAlwaysAndWhenInUseUsageDescription",
                              "NSUserTrackingUsageDescription",
                              "NSFaceIDUsageDescription",
                              "NSContactsUsageDescription"} :
                      Has(infoPlist[1], k) /\ infoPlist[1][k] # ""
    IN  /\ Len(about) = 1
        /\ about[1].severity = IF required THEN "HIGH" ELSE "INFO"

\* C13 (last part), for whole runs: the report on the bundle of the test,
\* whose manifest is fully valid and has the camera key and which has no
\* privacy manifest, holds exactly one High finding that mentions 'Privacy
\* manifest' and no Critical finding.
C13_CameraScenario ==
  (/\ pc = "done"
   /\ outcome[1].kind = "report"
   /\ buildPath = Some("/tmp/TestApp.app")
   /\ MapHas(rules, PC)) =>
    /\ Len(SelectSeq(results,
                     LAMBDA r : /\ r.severity = "HIGH"
                                /\ Includes(r.message, "Privacy manifest"))) = 1
    /\ CountOf(results, "CRITICAL") = 0

\* the findings hold one with the severity and exactly the message
HasFinding(severity, message) ==
  \E i \in 1..Len(results) :
    results[i].severity = severity /\ results[i].message = message

\* the keywords of the document, joined with commas; '' without keywords
JoinedKeywords(m) ==
  IF Has(m, "keywords") THEN Join(m.keywords.value, ",") ELSE ""

\* the document is of the format of the README: its keywords, if it has
\* any, are an array
KeywordsAreArray(m) == Has(m, "keywords") => m.keywords.isArray

\* C14: applied with a metadata document loaded, the metadata rule returns
\* a High finding 'App name exceeds 30 character limit' exactly when the
\* document's appName is longer than 30 characters, a Low finding exactly
\* when its description is shorter than 100 characters, and a Medium finding
\* exactly when its keywords joined together are longer than 100 characters;
\* applied with no document loaded it returns exactly one finding, an Info.
C14_MetadataLimits ==
  (pc = "applied" /\ log[1].name = "metadata"
     /\ (metadata # None => KeywordsAreArray(metadata[1]))) =>
    /\ outcome[1].kind = "returned"
    /\ IF metadata = None
       THEN Len(results) = 1 /\ results[1].severity = "INFO"
       ELSE LET m == metadata[1]
            IN  /\ HasFinding("HIGH", "App name exceeds 30 character limit")
                     <=> (Has(m, "appName")
                            /\ Len(m.appName) > APP_NAME_MAX_LENGTH)
                /\ CountOf(results, "LOW") >= 1
                     <=> (Has(m, "description")
                            /\ Len(m.description) < DESCRIPTION_MIN_LENGTH)
                /\ CountOf(results, "MEDIUM") >= 1
                     <=> Len(JoinedKeywords(m)) > KEYWORDS_MAX_LENGTH

\* what the rule does: as C14, but the Low finding is returned exactly when
\* the description is not empty and shorter than 100 characters
C14_NonEmptyDescription ==
  (pc = "applied" /\ log[1].name = "metadata"
     /\ (metadata # None => KeywordsAreArray(metadata[1]))) =>
    /\ outcome[1].kind = "returned"
    /\ IF metadata = None
       THEN Len(results) = 1 /\ results[1].severity = "INFO"
       ELSE LET m == metadata[1]
            IN  /\ HasFinding("HIGH", "App name exceeds 30 character limit")
                     <=> (Has(m, "appName")
                            /\ Len(m.appName) > APP_NAME_MAX_LENGTH)
                /\ CountOf(results, "LOW") >= 1
                     <=> (/\ Has(m, "description")
                          /\ m.description # ""
                          /\ Len(m.description) < DESCRIPTION_MIN_LENGTH)
                /\ CountOf(results, "MEDIUM") >= 1
                     <=> Len(JoinedKeywords(m)) > KEYWORDS_MAX_LENGTH

(***************************************************************************)
(* Properties of the reports                                               *)
(***************************************************************************)
\* validate has returned a report of the format
Reported(format) ==
  /\ pc = "done"
  /\ outcome[1].kind = "report"
  /\ outcome[1].report.format = format

\* C15: in the JUnit report of a run every finding is exactly one test
\* case, in the order of the findings and under the finding's rule; a test
\* case has a failure element if and only if its finding is Critical or
\* High; the suite's tests attribute is the number of findings and its
\* failures attribute is the number of test cases with a failure element.
C15_JUnitReport ==
  Reported("junit") =>
    LET suite == outcome[1].report.document
        failing == SelectSeq(suite.testCases, LAMBDA t : t.failure # None)
    IN  /\ Len(suite.testCases) = Len(results)
        /\ \A i \in 1..Len(results) :
             /\ suite.testCases[i].name = results[i].rule
             /\ suite.testCases[i].failure # None
                  <=> results[i].severity \in {"CRITICAL", "HIGH"}
             /\ suite.testCases[i].failure # None =>
                  suite.testCases[i].failure[1].type = results[i].severity
        /\ suite.tests = Len(results)
        /\ suite.failures = Len(failing)

\* a JUnit report of a run with a High finding, a Medium finding and an
\* Info finding
C15_Witness ==
  /\ Reported("junit")
  /\ CountOf(results, "HIGH") >= 1
  /\ CountOf(results, "MEDIUM") >= 1
  /\ CountOf(results, "INFO") >= 1
  /\ outcome[1].report.document.failures >= 1

\* the fields of a finding the JSON report carries
FindingFields == {"rule", "severity", "message", "details", "fix", "fixType"}

\* C16: the JSON report of a run is an object {summary, results,
\* generatedAt}; results has one entry per finding of the run, in the order
\* of the findings, each with the finding's rule, severity, message,
\* details, fix and fix kind unchanged; summary.total is the length of
\* results; a run without findings gives an empty results array and
\* summary.total 0.
C16_JsonReport ==
  Reported("json") =>
    LET doc == outcome[1].report.document
    IN  /\ DOMAIN doc = {"summary", "results", "generatedAt"}
        /\ Len(doc.results) = Len(results)
        /\ \A i \in 1..Len(results) :
             \A f \in FindingFields :
               Has(doc.results[i], f) /\ doc.results[i][f] = results[i][f]
        /\ doc.summary.total = Len(doc.results)
        /\ results = <<>> => (doc.results = <<>> /\ doc.summary.total = 0)

\* a JSON report of a run in which every rule ran and none found anything
C16_Witness ==
  /\ Reported("json")
  /\ RulesEntered # <<>>
  /\ results = <<>>
  /\ outcome[1].report.document.summary.total = 0

\* the rules of the run that were evaluated and gave no finding
PassedRules ==
  {name \in SeqToSet(RulesEntered) :
     \A i \in 1..Len(results) : results[i].rule # name}

\* C17: the summary of a run's report gives, for each of the five
\* severities, the number of findings of that severity, and lists as passed
\* exactly the rules that were evaluated in the run and gave no finding.
C17_SummaryCountsAndPassedRules ==
  (pc = "done" /\ outcome[1].kind = "report") =>
    LET summary == outcome[1].report.summary
    IN  /\ summary.critical = CountOf(results, "CRITICAL")
        /\ summary.high = CountOf(results, "HIGH")
        /\ summary.medium = CountOf(results, "MEDIUM")
        /\ summary.low = CountOf(results, "LOW")
        /\ summary.info = CountOf(results, "INFO")
        /\ Has(summary, "passedRules")
        /\ SeqToSet(summary.passedRules) = PassedRules

\* what the summary does give: the five counts, and the names of the
\* active rules
C17_SummaryCounts ==
  (pc = "done" /\ outcome[1].kind = "report") =>
    LET summary == outcome[1].report.summary
        count(severity) ==
          Cardinality({i \in 1..Len(results) : results[i].severity = severity})
    IN  /\ summary.critical = count("CRITICAL")
        /\ summary.high = count("HIGH")
        /\ summary.medium = count("MEDIUM")
        /\ summary.low = count("LOW")
        /\ summary.info = count("INFO")
        /\ summary.rulesRun = MapKeys(rules)
        /\ outcome[1].report.format = "console" =>
             outcome[1].report.document.passed = <<>>

(***************************************************************************)
(* Properties of repeated validate calls, under SpecRepeat                 *)
(***************************************************************************)
\* a later call has completed with the arguments of the instance's first
\* completed call
RepeatsFirstRun ==
  /\ pc = "done"
  /\ runs > 1
  /\ firstRun.run # None
  /\ buildPath = Some(firstRun.run[1].buildPath)
  /\ metadataPath = firstRun.run[1].metadataPath

\* this.metadata is what a call with this metadataPath leaves on a new
\* instance: the parsed document, or null when none was given or loaded
MetadataOfThisCall ==
  metadata = IF metadataPath = None THEN None
             ELSE MetaFS(metadataPath[1]).value

\* C18: a validate call with the package, the metadata file and the
\* configuration of an earlier call gives the same findings in the same
\* order as that call, whatever the instance did in between.
C18_SameInputsSameFindings ==
  RepeatsFirstRun => results = firstRun.run[1].results

\* C18, the part that holds: the findings are the same whenever the
\* instance holds no metadata document of another call; this.results is
\* emptied at the start of each call, so nothing of an earlier call's
\* findings is in it.
C18_SameFindingsWithoutStaleMetadata ==
  (RepeatsFirstRun /\ MetadataOfThisCall) =>
    results = firstRun.run[1].results

(***************************************************************************)
(* Properties of the configuration, under SpecRegistry                     *)
(***************************************************************************)
\* the object the configuration file gave the constructor call: {} when
\* there is no file at the path or it does not load
FileConfig ==
  LET configPath == IF options.configPath # None THEN options.configPath[1]
                    ELSE DefaultConfigPath
  IN  IF configPath \in DOMAIN ConfigFiles /\ ConfigFiles[configPath].loads
      THEN ConfigFiles[configPath].content
      ELSE EmptyObject

\* the keys the claim names: the two arrays and the two scalar settings
ConfigurationKeys == {"ignore", "customRules", "output", "failOn"}

\* the value the code works with: loadRules and applyRuleFiltering read
\* this.config.customRules and this.config.ignore, generateReport reads
\* this.options.output, and failOn is the option the caller hands to the
\* constructor and compares the findings with
Effective(k) ==
  IF k \in {"ignore", "customRules"} THEN config[k] ELSE options[k]

\* the constructor calls of SpecRegistry give ignore and customRules or
\* leave them out, and never give output or failOn
GivenByCaller(k) == k \in {"ignore", "customRules"} /\ Has(options, k)

BuiltInDefault(k) ==
  IF k \in {"ignore", "customRules"} THEN <<>> ELSE DefaultOptions[k]

\* C19: each configuration value is the caller's when the caller gave one,
\* else the configuration file's when the file has one, else the built-in
\* default.
C19_ConfigurationPrecedence ==
  phase = "ready" =>
    \A k \in ConfigurationKeys :
      Effective(k) = IF GivenByCaller(k) THEN options[k]
                     ELSE IF Has(FileConfig, k) THEN FileConfig[k]
                     ELSE BuiltInDefault(k)

\* C19, the part that holds: the precedence is kept for the two arrays
\* ignore and customRules.
C19_PrecedenceOfArrays ==
  phase = "ready" =>
    \A k \in {"ignore", "customRules"} :
      Effective(k) = IF GivenByCaller(k) THEN options[k]
                     ELSE IF Has(FileConfig, k) THEN FileConfig[k]
                     ELSE BuiltInDefault(k)

\* C19, what the code does with the scalar settings: a value of the file
\* is never the effective one.
C19_FileScalarsIgnored ==
  phase = "ready" =>
    \A k \in {"output", "failOn"} : Effective(k) = DefaultOptions[k]

(***************************************************************************)
(* Properties of the order of the stages of one validate call, under Spec  *)
(***************************************************************************)
\* the place of a stage in validate(), lines 138-152
StageRank(e) ==
  CASE e.op = "validateInputs" -> 1
    [] e.op = "parseBuildArtifacts" -> 2
    [] e.op = "loadMetadata" -> 3
    [] e.op = "rule" -> 4
    [] e.op = "generateReport" -> 5

\* the stages entered so far were entered in the order of the code, each
\* once, and the rule stage evaluated no rule twice
StagesInOrder ==
  \A i, j \in 1..Len(log) :
    i < j =>
      \/ StageRank(log[i]) < StageRank(log[j])
      \/ /\ log[i].op = "rule" /\ log[j].op = "rule"
         /\ log[i].name # log[j].name

\* every stage the call's arguments ask for was entered
AllStagesEntered ==
  /\ Entered("validateInputs")
  /\ Entered("parseBuildArtifacts")
  /\ metadataPath # None => Entered("loadMetadata")
  /\ RulesEntered = MapKeys(rules)
  /\ Entered("generateReport")

\* the positions validate() moves through, and the moves between them
StageMoves ==
  { <<"idle", "parse">>, <<"idle", "done">>, <<"done", "parse">>,
    <<"parse", "metadata">>, <<"parse", "rules">>, <<"parse", "done">>,
    <<"metadata", "rules">>, <<"rules", "done">> }

\* a step of a call moves forward, and adds stages at the end of the
\* call's history and nowhere else
StepInOrder ==
  /\ pc' # pc => <<pc, pc'>> \in StageMoves
  /\ runs' = runs =>
       /\ Len(log') >= Len(log)
       /\ SubSeq(log', 1, Len(log)) = log
  /\ runs' # runs => (runs' = runs + 1 /\ pc \in {"idle", "done"})

\* a completed call ended before the rules or without a report only
\* because the build path was rejected or extraction failed
EndsEarlyOnlyOnInputOrExtraction ==
  Completed =>
    \/ AllStagesEntered
    \/ /\ InvalidInput(buildPath[1])
       /\ log = << Stage("validateInputs", "") >>
    \/ /\ ExtractionFailed
       /\ log = << Stage("validateInputs", ""),
                   Stage("parseBuildArtifacts", ""),
                   Stage("generateReport", "") >>

\* C20: within one validate call the stages are entered only in the order
\* input validation, extraction, metadata loading, rule execution, report
\* generation, none of them twice; the call ends early only when input
\* validation rejects the path or extraction fails, so that after a failed
\* metadata load or a throwing rule every later stage is still entered.
C20_StagesInFixedOrder ==
  /\ [](StagesInOrder /\ EndsEarlyOnlyOnInputOrExtraction)
  /\ [][StepInOrder]_vars

\* a second call in which the metadata file did not load and a rule threw,
\* and which went on through the remaining rules to the report
C20_Witness ==
  /\ pc = "done"
  /\ runs = 2
  /\ AllStagesEntered
  /\ log[3].op = "loadMetadata"
  /\ metadata = None
  /\ \E i \in 1..Len(rules) : i < Len(rules) /\ Evaluation(i).threw
  /\ log[Len(log)].op = "generateReport"
  /\ Len(log) = Len(rules) + 4

(***************************************************************************)
(* Properties of the order of rule evaluation and of the findings          *)
(***************************************************************************)
\* what rule i adds to this.results: the findings it returned, as
\* returned, or the one finding of its failure
Contribution(i) ==
  IF Evaluation(i).threw
  THEN << RuleFailureFinding(rules[i].name, Evaluation(i).value) >>
  ELSE Evaluation(i).value

\* the contributions of the rules 1..n, one after the other
RECURSIVE ContributionsUpTo(_)
ContributionsUpTo(n) ==
  IF n <= 0 THEN <<>> ELSE ContributionsUpTo(n - 1) \o Contribution(n)

\* the place of a severity in the severity order
SeverityPlace(s) ==
  CASE s = "CRITICAL" -> 5 [] s = "HIGH" -> 4 [] s = "MEDIUM" -> 3
    [] s = "LOW" -> 2 [] OTHER -> 1

\* C21: in a run that reaches the rules, the rules are evaluated one after
\* another in the order of this.rules, each exactly once, and the findings
\* of the rules stand in this.results grouped by rule in that order, each
\* rule's findings in the order the rule returned them.
C21_FindingsInEvaluationOrder ==
  /\ pc = "rules" =>
       /\ RulesEntered = SubSeq(MapKeys(rules), 1, ruleIdx - 1)
       /\ results = SubSeq(results, 1, MetadataShare)
                      \o ContributionsUpTo(ruleIdx - 1)
  /\ RulesCompleted =>
       /\ RulesEntered = MapKeys(rules)
       /\ results = SubSeq(results, 1, MetadataShare)
                      \o ContributionsUpTo(Len(rules))
       /\ outcome[1].report.results = results

\* a completed run in which a later rule's finding is more severe than an
\* earlier rule's, and a rule returned a less severe finding before a more
\* severe one
C21_Witness ==
  /\ RulesCompleted
  /\ \E i, j \in 1..Len(rules) :
       /\ i < j
       /\ Share(i) > 0 /\ Share(j) > 0
       /\ SeverityPlace(Segment(i)[1].severity)
            < SeverityPlace(Segment(j)[1].severity)
  /\ \E i \in 1..Len(rules) :
       /\ ~Evaluation(i).threw
       /\ \E a, b \in 1..Share(i) :
            /\ a < b
            /\ SeverityPlace(Evaluation(i).value[a].severity)
                 < SeverityPlace(Evaluation(i).value[b].severity)

\* the registry as loadRules filled it, before applyRuleFiltering
Registry == RegisterAll(<<>>, RegisterCalls(config))

\* the place of a name in a sequence of names: 0 when it is not in it
PlaceIn(names, n) ==
  IF \E i \in 1..Len(names) : names[i] = n
  THEN CHOOSE i \in 1..Len(names) :
         /\ names[i] = n
         /\ \A j \in 1..(i - 1) : names[j] # n
  ELSE 0

\* the active rules stand in the order of the sequence of names
InOrderOf(names) ==
  \A i, j \in 1..Len(rules) :
    i < j => PlaceIn(names, rules[i].name) < PlaceIn(names, rules[j].name)

\* C22: the rules that survive the filtering stand in this.rules, and so
\* are executed, in the order in which they were registered, whatever the
\* order of the names in the ignore, include and exclude arrays.
C22_RegistrationOrderKept ==
  phase = "ready" => InOrderOf(MapKeys(Registry))

\* C22, the part that holds: without an include array the order is the
\* order of registration; with one it is the order of the include array.
C22_OrderOfRegistryOrInclude ==
  phase = "ready" =>
    IF Has(options.ruleOptions, "include")
    THEN InOrderOf(options.ruleOptions.include)
    ELSE InOrderOf(MapKeys(Registry))

(***************************************************************************)
(* Properties of the manifest the rules read                               *)
(***************************************************************************)
\* m is a manifest of the package at path: the Info.plist at the root of
\* the .app directory, or that of an entry Payload/<Name>.app/Info.plist of
\* the archive
ManifestOfPackage(m, path) ==
  IF EndsWith(path, ".ipa")
  THEN \E k \in 1..Len(BuildFS(path).entries) :
         /\ IsPrimaryManifestEntry(BuildFS(path).entries[k])
         /\ ParsePlist(BuildFS(path).entries[k].body) = m
  ELSE /\ "Info.plist" \in DOMAIN BuildFS(path).files
       /\ ParsePlist(BuildFS(path).files["Info.plist"]) = m

\* the extraction of this call gave a manifest
ExtractionGaveManifest ==
  /\ Entered("parseBuildArtifacts")
  /\ promise.state = "resolved"
  /\ promise.value[1].infoPlist # None

Returned ==
  /\ pc \in {"done", "exited"}
  /\ outcome # None
  /\ outcome[1].kind = "report"

\* C24: the rulesRun list of the summary holds exactly the names of the
\* rules that were evaluated in the run, and is empty in a run that failed
\* during extraction.
C24_RulesRunAreRulesEvaluated ==
  Returned => outcome[1].report.summary.rulesRun = RulesEntered

\* C24, the part that holds: rulesRun is the list of the active rules,
\* which is the list of the rules evaluated when the run reached the rules.
C24_RulesRunAreActiveRules ==
  Returned =>
    /\ outcome[1].report.summary.rulesRun = MapKeys(rules)
    /\ ~ExtractionFailed => outcome[1].report.summary.rulesRun = RulesEntered

(***************************************************************************)
(* Properties of the auxiliary files of an archive                         *)
(***************************************************************************)
\* the entry lies directly at the root of a top-level component:
\* Payload/<Name>.app/<leaf>
IsAtAppRoot(e, leaf) ==
  LET c == Components(e.fileName)
  IN  /\ Len(c) = 3
      /\ c[1] = "Payload"
      /\ Len(c[2]) > Len(".app") /\ EndsWith(c[2], ".app")
      /\ c[3] = leaf

\* the value was read from an entry of that name at the root, emitted so far
FromRootEntry(value, leaf) ==
  \E k \in 1..zpos :
    /\ IsAtAppRoot(archive[k], leaf)
    /\ ParsePlist(archive[k].body) = value

\* parseIPA resolved, so that the rules run, and the privacy-compliance
\* rule's own scan of the archive finds a manifest
RuleScanFindsManifest ==
  /\ promise.state = "resolved"
  /\ ~ScanForPrivacyManifest(archive).threw
  /\ ScanForPrivacyManifest(archive).value

\* C25: parseIPA takes a privacy manifest and an entitlements file only
\* from an entry directly at the root of Payload/<Name>.app/, and the
\* privacy-compliance rule's scan of the archive reports a privacy manifest
\* only when such an entry is in the archive.
C25_AuxiliaryFilesOnlyAtRoot ==
  /\ artifacts.privacyManifest # None =>
       FromRootEntry(artifacts.privacyManifest, "PrivacyInfo.xcprivacy")
  /\ artifacts.entitlements # None =>
       FromRootEntry(artifacts.entitlements,
                     "archived-expanded-entitlements.xcent")
  /\ RuleScanFindsManifest =>
       \E k \in 1..Len(archive) :
         IsAtAppRoot(archive[k], "PrivacyInfo.xcprivacy")

\* C25, the part that holds: the privacy manifest of parseIPA is that of an
\* entry at the root.
C25_ParserPrivacyManifestAtRoot ==
  artifacts.privacyManifest # None =>
    FromRootEntry(artifacts.privacyManifest, "PrivacyInfo.xcprivacy")

\* C25 for the entitlements of parseIPA alone
C25_ParserEntitlementsAtRoot ==
  artifacts.entitlements # None =>
    FromRootEntry(artifacts.entitlements,
                  "archived-expanded-entitlements.xcent")

\* C25 for the scan of the privacy-compliance rule alone
C25_RuleScanAtRoot ==
  RuleScanFindsManifest =>
    \E k \in 1..Len(archive) :
      IsAtAppRoot(archive[k], "PrivacyInfo.xcprivacy")

(***************************************************************************)
(* Properties of the privacy-compliance rule's purpose-string checks       *)
(***************************************************************************)
\* the findings of the rule about the purpose string of the key
AboutPurposeString(key) ==
  SelectSeq(results, LAMBDA r : StartsWith(r.message, key \o " "))

\* some finding about the purpose string of the key has the text in its
\* message
PurposeFinding(key, text) ==
  \E i \in 1..Len(AboutPurposeString(key)) :
    Includes(AboutPurposeString(key)[i].message, text)

IsShort(d) == Len(d) < DESCRIPTION_SHORT_LENGTH

IsGeneric(d) ==
  \E i \in 1..Len(GenericPhrases) : Includes(ToLowerCase(d), GenericPhrases[i])

\* the leftover placeholder tokens the claim names
HasPlaceholderToken(d) == Includes(d, "TODO") \/ Includes(d, "CHANGE ME")

\* the privacy-compliance rule was applied to a manifest
PrivacyApplied == Applied(PC) /\ infoPlist # None

PresentPermissionKeys ==
  {PRIVACY_PERMISSION_KEYS[i] : i \in 1..Len(PRIVACY_PERMISSION_KEYS)}
    \cap {k \in DOMAIN infoPlist[1] : Truthy(infoPlist[1], k)}

\* C26: for each privacy permission key of the manifest the rule gives a
\* finding when the purpose string is shorter than 30 characters, a finding
\* when it holds a generic phrase, and a finding when it holds a leftover
\* placeholder token; for a string of 30 characters or more with none of
\* these it gives no finding about the string.
C26_PurposeStringChecks ==
  PrivacyApplied =>
    \A key \in PresentPermissionKeys :
      LET d == infoPlist[1][key]
      IN  /\ IsShort(d) => PurposeFinding(key, "too short")
          /\ IsGeneric(d) => PurposeFinding(key, "generic")
          /\ HasPlaceholderToken(d) => PurposeFinding(key, "placeholder")
          /\ (~IsShort(d) /\ ~IsGeneric(d) /\ ~HasPlaceholderToken(d)) =>
               AboutPurposeString(key) = <<>>

\* C26, the part that holds: the findings about a purpose string are the
\* Medium finding of a short string and the Low finding of a generic
\* phrase, each exactly when its condition holds, and no other.
C26_LengthAndGenericChecks ==
  PrivacyApplied =>
    \A key \in PresentPermissionKeys :
      LET d == infoPlist[1][key]
          about == AboutPurposeString(key)
      IN  /\ IsShort(d) <=>
               \E i \in 1..Len(about) :
                 /\ about[i].severity = "MEDIUM"
                 /\ about[i].message = key \o " description too short"
          /\ IsGeneric(d) <=>
               \E i \in 1..Len(about) :
                 /\ about[i].severity = "LOW"
                 /\ about[i].message = key \o " has generic description"
          /\ Len(about) = (IF IsShort(d) THEN 1 ELSE 0)
                            + (IF IsGeneric(d) THEN 1 ELSE 0)

(***************************************************************************)
(* Properties of the privacy-compliance rule's location checks            *)
(***************************************************************************)
\* some finding of the given severity is about location access
LocationFinding(severity) ==
  \E i \in 1..Len(results) :
    /\ results[i].severity = severity
    /\ \/ Includes(ToLowerCase(results[i].message), "location")
       \/ Includes(ToLowerCase(results[i].details), "location")

\* the manifest has the deprecated always key and not the when-in-use key
AlwaysWithoutWhenInUse ==
  /\ Truthy(infoPlist[1], "NSLocationAlwaysUsageDescription")
  /\ ~Truthy(infoPlist[1], "NSLocationWhenInUseUsageDescription")

\* C27: applied to a manifest that has NSLocationAlwaysUsageDescription and
\* not NSLocationWhenInUseUsageDescription, the privacy-compliance rule
\* gives a High finding about the location access.
C27_DeprecatedAlwaysLocationIsHigh ==
  (PrivacyApplied /\ AlwaysWithoutWhenInUse) => LocationFinding("HIGH")

\* C27, what the rule does about location: one Medium finding exactly when
\* the manifest has both NSLocationAlwaysAndWhenInUseUsageDescription and
\* NSLocationWhenInUseUsageDescription, and no High finding about location.
C27_LocationChecksOfTheRule ==
  PrivacyApplied =>
    /\ ~LocationFinding("HIGH")
    /\ HasFinding("MEDIUM",
                  "App requests both always and when-in-use location access")
         <=> /\ Truthy(infoPlist[1],
                       "NSLocationAlwaysAndWhenInUseUsageDescription")
             /\ Truthy(infoPlist[1], "NSLocationWhenInUseUsageDescription")

(***************************************************************************)
(* Properties of what a later call sees of an earlier one, under           *)
(* SpecRepeat                                                              *)
(***************************************************************************)
\* the second call of an instance is given no metadata path, after a first
\* call that was given one, and has reached its rules
SecondCallWithoutMetadata ==
  /\ runs = 2
  /\ firstRun.run # None
  /\ firstRun.run[1].metadataPath # None
  /\ metadataPath = None
  /\ pc = "rules" \/ (pc = "done" /\ Entered("rule"))

\* C28: in a validate(pathB, null) call after a completed
\* validate(pathA, metadataA) call on the same instance, the rules see no
\* metadata and the manifest of pathB.
C28_LaterRunSeesNoEarlierData ==
  SecondCallWithoutMetadata =>
    /\ metadata = None
    /\ ManifestOfPackage(infoPlist, buildPath[1])

\* C28, the part that holds: the manifest the rules see is that of pathB;
\* the metadata they see is the document the first call loaded, and none
\* only when that load failed.
C28_LaterRunSeesManifestOfItsPackage ==
  SecondCallWithoutMetadata =>
    /\ ManifestOfPackage(infoPlist, buildPath[1])
    /\ metadata = IF Entered("parseBuildArtifacts")
                     /\ ~InvalidInput(firstRun.run[1].buildPath)
                     /\ \A i \in 1..Len(firstRun.run[1].results) :
                          firstRun.run[1].results[i].rule # "SYSTEM"
                  THEN MetaFS(firstRun.run[1].metadataPath[1]).value
                  ELSE None

(***************************************************************************)
(* Properties of overlapping validate calls, under SpecOverlap             *)
(***************************************************************************)
\* call c returned a report
ReturnedReport(c) ==
  /\ inFlight[c].pc = "done"
  /\ inFlight[c].outcome # None
  /\ inFlight[c].outcome[1].kind = "report"

\* C29: the report a validate call returns holds the findings that call
\* produced, all of them and no others, also when another call on the same
\* instance is in progress at the same time.
C29_ReportHoldsOwnFindings ==
  \A c \in Calls :
    ReturnedReport(c) =>
      inFlight[c].outcome[1].report.results = inFlight[c].own

\* C29, the part that holds: a call during which no other call on the
\* instance was in progress returns exactly its own findings.
C29_ReportOfCallAlone ==
  \A c \in Calls :
    (ReturnedReport(c) /\ inFlight[c].alone) =>
      inFlight[c].outcome[1].report.results = inFlight[c].own

(***************************************************************************)
(* Properties of the termination of parseIPA, under SpecIPALive            *)
(***************************************************************************)
\* the promise of parseIPA is settled
Settled == promise.state # "pending"

\* resolve and reject were called at most once in all, a resolution carries
\* a manifest, a rejection an error message, and the scan has not stopped
\* requesting entries while the promise is pending
SettlesAtMostOnce ==
  /\ settleCalls <= 1
  /\ Settled <=> settleCalls = 1
  /\ promise.state = "resolved" => promise.value[1].infoPlist # None
  /\ promise.state = "rejected" => promise.value[1] # ""
  /\ zstate = "stalled" => promise.state = "rejected"

\* C30: for every archive that can be opened, parseIPA eventually settles,
\* exactly once, resolving with a manifest or rejecting with an error; on
\* no path through the entry handler does the scan stall with the promise
\* pending.
C30_ParseIPASettlesExactlyOnce ==
  /\ []SettlesAtMostOnce
  /\ archiveOpens ~> Settled

\* resolved after an entry whose stream could not be opened, an entry whose
\* stream failed while it was read, and the manifest itself
C30_Witness ==
  /\ promise.state = "resolved"
  /\ zstate = "closed"
  /\ Len(archive) = 3
  /\ archive[1].body = "open-fails"
  /\ archive[2].body = "read-fails"
  /\ archive[3].body = "plist:main"
  /\ settleCalls = 1

====
